---- MODULE Spec2Model ----
(***************************************************************************)
(* A model of the log-entry pipeline of olekukonko/ll: the shared          *)
(* namespace store with its derived-state cache, the Logger's gates        *)
(* (enabled/level, namespace, sampling, rate limit), context merge,        *)
(* middleware chain and handler dispatch, the Fields builder, and the      *)
(* lm rate-limit and sampling stages.                                      *)
(*                                                                         *)
(* Strings that the code splits, joins or prefix-tests (namespace paths)   *)
(* are sequences of one-character strings, so that strings.Split,          *)
(* strings.Join and strings.HasPrefix are computed, not assumed.           *)
(* Go maps are functions whose DOMAIN is the set of keys present.          *)
(* Probabilities and uniform draws are integers in units of 1/Den.         *)
(***************************************************************************)
EXTENDS Integers, Sequences, FiniteSets, TLC

VARIABLES
    store,        \* namespaceStore.Map: path -> bool, the explicit states
    cache,        \* namespaceStore.cache: path -> bool, the derived states
    enabled,      \* Logger.enabled
    level,        \* Logger.level
    context,      \* Logger.context
    handler,      \* Logger.handler ("nil" or the name of a handler)
    middleware,   \* Logger.middleware, in installation order
    rateLimits,   \* Logger.rateLimits: level -> rateLimit
    sampleRates,  \* Logger.sampleRates: level -> rate
    now,          \* the clock read by time.Now()
    obs,          \* what the last operation did (its inputs and its effects)
    rlHist,       \* per level: the arrival times and outcomes at the logger's rate-limit gate
    limiter,      \* lm.RateLimiter.limits: level -> rateLimit
    lmHist,       \* per level: the arrival times and outcomes at lm.RateLimiter.Handle
    sampling,     \* lm.Sampling: [rates, stats]
    fb,           \* the FieldBuilder returned by the last Fields call
    th,           \* concurrent callers of the namespace store: thread -> frame
    mh,           \* lh.MultiHandler: its children and what its last Handle did
    config,       \* lh.Buffered.config, and whether NewBuffered has returned
    entries,      \* lh.Buffered.entries: the records in the channel, oldest first
    flushSignal,  \* lh.Buffered.flushSignal: the number of signals in the channel
    shutdown,     \* lh.Buffered.shutdown: whether the channel is closed
    shutdownOnce, \* lh.Buffered.shutdownOnce: "new", "running" or "done"
    worker,       \* the goroutine of Buffered.worker: its position and its batch
    tickerC,      \* the ticks waiting in ticker.C of the worker
    down,         \* the records the wrapped handler was called with, in order
    producer,     \* the caller of Buffered.Handle and Flush: its position
    closers,      \* the callers of Buffered.Close and Final: thread -> position
    bh,           \* what the calls on the Buffered handler did so far
    panicked,     \* a goroutine has panicked
    pipe,         \* lh.Pipe: its arguments and the handler it returned
    fam,          \* the loggers made by New, Namespace and WithContext, in order
    arrays,       \* the backing arrays of the loggers' middleware slices
    stores,       \* the namespace stores the loggers point to
    toggled,      \* per path: the last NamespaceEnable/Disable and its caller
    gor,          \* goroutines calling the logger or lm.Sampling: id -> frame
    mu,           \* Logger.mu and Sampling.mu: the writer and the readers holding each
    fatal         \* the runtime has stopped the process with a fatal error

vars == <<store, cache, enabled, level, context, handler, middleware, rateLimits,
          sampleRates, now, obs, rlHist, limiter, lmHist, sampling, fb, th,
          mh, config, entries, flushSignal, shutdown, shutdownOnce, worker,
          tickerC, down, producer, closers, bh, panicked, pipe, fam, arrays,
          stores, toggled, gor, mu, fatal>>

----------------------------------------------------------------------------
(* Bounds of the model *)

MaxMw == 2         \* middleware functions installed on one logger
MaxTime == 2       \* clock ticks
MaxHist == 4       \* emissions remembered per rate-limited level
MaxArgs == 3       \* arguments of one Fields call
Den == 2           \* a probability p is the integer p * Den

----------------------------------------------------------------------------
(* Go maps *)

EmptyMap == <<>>

Put(m, k, v) == [x \in DOMAIN m \cup {k} |-> IF x = k THEN v ELSE m[x]]

Del(m, k) == [x \in DOMAIN m \ {k} |-> m[x]]

----------------------------------------------------------------------------
(* Levels *)

LevelDebug == 0
LevelInfo == 1
LevelWarn == 2
LevelError == 3

Levels == {LevelDebug, LevelInfo, LevelWarn, LevelError}

----------------------------------------------------------------------------
(* Strings as character sequences; namespace paths *)

Slash == "/"

\* strings.HasPrefix(s, prefix)
HasPrefix(s, prefix) ==
    /\ Len(s) >= Len(prefix)
    /\ SubSeq(s, 1, Len(prefix)) = prefix

\* strings.Split(s, "/"): the pieces between the separators; one piece,
\* possibly empty, when s holds no separator.
RECURSIVE Split(_)
Split(s) ==
    IF \A i \in 1..Len(s) : s[i] # Slash
    THEN <<s>>
    ELSE LET i == CHOOSE j \in 1..Len(s) :
                      s[j] = Slash /\ \A k \in 1..(j - 1) : s[k] # Slash
         IN <<SubSeq(s, 1, i - 1)>> \o Split(SubSeq(s, i + 1, Len(s)))

\* strings.Join(parts, "/")
RECURSIVE Join(_)
Join(parts) ==
    IF Len(parts) = 0 THEN <<>>
    ELSE IF Len(parts) = 1 THEN parts[1]
    ELSE parts[1] \o <<Slash>> \o Join(Tail(parts))

\* The paths of the model: "a", "a/b", "a/b/c" (read app, app/db,
\* app/db/query) and "ab", which has "a" as a string prefix but is no
\* descendant of it.
PathA == <<"a">>
PathAB == <<"a", "/", "b">>
PathABC == <<"a", "/", "b", "/", "c">>
PathAx == <<"a", "b">>
RootPath == <<>>

Paths == {PathA, PathAB, PathABC, PathAx}

----------------------------------------------------------------------------
(* Values carried by entries *)

\* A field map that may be nil (fields == nil in the code).
FieldsNil == [nil |-> TRUE, kv |-> EmptyMap]

MkFields(kv) == [nil |-> FALSE, kv |-> kv]

\* A value of any type: its dynamic type and its text as %v prints it, in
\* pieces (a formatted value is the concatenation of the pieces).
StrVal(x) == [kind |-> "string", v |-> <<x>>]
IntVal(x) == [kind |-> "int", v |-> <<x>>]

ErrVal(text) == [kind |-> "error", v |-> text]

\* fmt's %v of a value
Format(x) == x.v

StackKey == "stack"
StackTrace == StrVal("trace")

NoEntry ==
    [built |-> FALSE, Level |-> 0, Namespace |-> RootPath,
     Fields |-> FieldsNil, Timestamp |-> 0]

NoObs ==
    [op |-> "New", path |-> RootPath, level |-> 0, fields |-> FieldsNil,
     stack |-> FALSE, draw |-> 0, stage |-> "none", entry |-> NoEntry,
     mwCalled |-> <<>>, handled |-> 0, dropped |-> {}, args |-> <<>>,
     ended |-> "no"]

Op(name) == [NoObs EXCEPT !.op = name]

----------------------------------------------------------------------------
(* The namespace store *)

\* The cache after the invalidation of NamespaceEnable, NamespaceDisable
\* and Namespace.Set: the entry of path and every entry whose key starts
\* with path + "/" are deleted.
Invalidate_OnlyPath(ca, path) == Del(ca, path)

Invalidate(ca, path) ==
    LET keep == {k \in DOMAIN ca :
                    k # path /\ ~HasPrefix(k, path \o <<Slash>>)}
    IN [k \in keep |-> ca[k]]

\* The walk of shouldLog over the prefixes parts[:i], from the root down:
\* the first prefix with an explicit false ends it with false.
NsWalk_LastWins(st, parts, i) ==
    LET explicit == {j \in i..Len(parts) : Join(SubSeq(parts, 1, j)) \in DOMAIN st}
    IN IF explicit = {} THEN TRUE
       ELSE st[Join(SubSeq(parts, 1, CHOOSE j \in explicit :
                                        \A k \in explicit : k <= j))]

RECURSIVE NsWalk(_, _, _)
NsWalk(st, parts, i) ==
    IF i > Len(parts) THEN TRUE
    ELSE LET path == Join(SubSeq(parts, 1, i))
         IN IF path \in DOMAIN st /\ ~st[path] THEN FALSE
            ELSE NsWalk(st, parts, i + 1)

\* The namespace gate of shouldLog for a logger at currentPath: the cached
\* value if there is one, else the walk, whose result is cached.
NsGate(st, ca, currentPath) ==
    IF currentPath = RootPath THEN [enabled |-> TRUE, cache |-> ca]
    ELSE IF currentPath \in DOMAIN ca
    THEN [enabled |-> ca[currentPath], cache |-> ca]
    ELSE LET e == NsWalk(st, Split(currentPath), 1)
         IN [enabled |-> e, cache |-> Put(ca, currentPath, e)]

----------------------------------------------------------------------------
(* The gates of shouldLog after the namespace gate *)

\* The sampling gate lets the emission pass.
SamplePasses(rates, lvl, draw) ==
    lvl \in DOMAIN rates => ~(draw > rates[lvl])

\* The rate-limit gate at time t: the verdict and the limits it leaves.
RateGate_NoReset(limits, lvl, t) ==
    IF lvl \notin DOMAIN limits THEN [ok |-> TRUE, limits |-> limits]
    ELSE LET r == limits[lvl]
         IN IF r.count >= r.maxCount
            THEN [ok |-> FALSE, limits |-> limits]
            ELSE [ok |-> TRUE,
                  limits |-> [limits EXCEPT ![lvl].count = r.count + 1]]

RateGate(limits, lvl, t) ==
    IF lvl \notin DOMAIN limits THEN [ok |-> TRUE, limits |-> limits]
    ELSE LET lim == limits[lvl]
             r == IF t - lim.last >= lim.interval
                  THEN [lim EXCEPT !.last = t, !.count = 0]
                  ELSE lim
         IN IF r.count >= r.maxCount
            THEN [ok |-> FALSE, limits |-> [limits EXCEPT ![lvl] = r]]
            ELSE [ok |-> TRUE,
                  limits |-> [limits EXCEPT
                                ![lvl] = [r EXCEPT !.count = r.count + 1]]]

\* The sampling and rate-limit gates of shouldLog, in this order.
GatesAfterNs_RateFirst(lvl, draw) ==
    LET rl == RateGate(rateLimits, lvl, now)
    IN IF ~rl.ok THEN [stage |-> "rate", limits |-> rl.limits]
       ELSE IF ~SamplePasses(sampleRates, lvl, draw)
       THEN [stage |-> "sampling", limits |-> rl.limits]
       ELSE [stage |-> "pass", limits |-> rl.limits]

GatesAfterNs(lvl, draw) ==
    IF ~SamplePasses(sampleRates, lvl, draw)
    THEN [stage |-> "sampling", limits |-> rateLimits]
    ELSE LET rl == RateGate(rateLimits, lvl, now)
         IN [stage |-> IF rl.ok THEN "pass" ELSE "rate", limits |-> rl.limits]

\* shouldLog: where the emission stops ("pass" when it does not), and the
\* cache and the rate limits it leaves.
ShouldLog_NsFirst(path, lvl, draw) ==
    LET ns == NsGate(store, cache, path)
        g == GatesAfterNs(lvl, draw)
    IN IF ~enabled \/ lvl < level
       THEN [stage |-> "level", cache |-> ns.cache, limits |-> rateLimits]
       ELSE IF ~ns.enabled
       THEN [stage |-> "ns", cache |-> ns.cache, limits |-> rateLimits]
       ELSE [stage |-> g.stage, cache |-> ns.cache, limits |-> g.limits]

ShouldLog(path, lvl, draw) ==
    IF ~enabled \/ lvl < level
    THEN [stage |-> "level", cache |-> cache, limits |-> rateLimits]
    ELSE LET ns == NsGate(store, cache, path)
             g == GatesAfterNs(lvl, draw)
         IN IF ~ns.enabled
            THEN [stage |-> "ns", cache |-> ns.cache, limits |-> rateLimits]
            ELSE [stage |-> g.stage, cache |-> ns.cache, limits |-> g.limits]

----------------------------------------------------------------------------
(* Logger.log after shouldLog *)

\* The stack capture of log: fields["stack"] is set, in a fresh map when
\* fields is nil.
WithStack(fields, withStack) ==
    IF withStack THEN MkFields(Put(fields.kv, StackKey, StackTrace))
    ELSE fields

\* The loop of the context merge over the keys ks still to visit: a context
\* value is written only under a key the entry does not hold yet.
RECURSIVE MergeLoop_Overwrite(_, _, _)
MergeLoop_Overwrite(kv, ctx, ks) ==
    IF ks = {} THEN kv
    ELSE LET k == CHOOSE x \in ks : TRUE
         IN MergeLoop_Overwrite(Put(kv, k, ctx[k]), ctx, ks \ {k})

RECURSIVE MergeLoop(_, _, _)
MergeLoop(kv, ctx, ks) ==
    IF ks = {} THEN kv
    ELSE LET k == CHOOSE x \in ks : TRUE
         IN MergeLoop(IF k \in DOMAIN kv THEN kv ELSE Put(kv, k, ctx[k]),
                      ctx, ks \ {k})

\* The context merge of log: nothing happens with an empty context; a nil
\* field map is replaced by a fresh one.
MergeContext(fields, ctx) ==
    IF DOMAIN ctx = {} THEN fields
    ELSE MkFields(MergeLoop(fields.kv, ctx, DOMAIN ctx))

\* What a middleware function returns for an entry.
MwKinds == {"accept", "reject", "warnUp"}

MwAccepts(mw, entry) ==
    CASE mw = "accept" -> TRUE
      [] mw = "reject" -> FALSE
      [] mw = "warnUp" -> entry.Level >= LevelWarn

\* The middleware loop of log from index i: the functions it calls, in
\* order, and whether all of them returned true.
RECURSIVE RunMiddleware_NoStop(_, _, _)
RunMiddleware_NoStop(mws, i, entry) ==
    IF i > Len(mws) THEN [called |-> <<>>, ok |-> TRUE]
    ELSE LET r == RunMiddleware_NoStop(mws, i + 1, entry)
         IN [called |-> <<i>> \o r.called,
             ok |-> MwAccepts(mws[i], entry) /\ r.ok]

RECURSIVE RunMiddleware(_, _, _)
RunMiddleware(mws, i, entry) ==
    IF i > Len(mws) THEN [called |-> <<>>, ok |-> TRUE]
    ELSE IF ~MwAccepts(mws[i], entry) THEN [called |-> <<i>>, ok |-> FALSE]
    ELSE LET r == RunMiddleware(mws, i + 1, entry)
         IN [called |-> <<i>> \o r.called, ok |-> r.ok]

\* Logger.log from the point where shouldLog has returned true: the entry
\* handed to the middleware chain, the middleware called, and the number of
\* calls of the handler.
Dispatch(path, lvl, fields, withStack) ==
    LET f == MergeContext(WithStack(fields, withStack), context)
        entry == [built |-> TRUE, Level |-> lvl, Namespace |-> path,
                  Fields |-> f, Timestamp |-> now]
        mw == RunMiddleware(middleware, 1, entry)
    IN [entry |-> entry,
        mwCalled |-> mw.called,
        handled |-> IF mw.ok /\ handler # "nil" THEN 1 ELSE 0,
        stage |-> IF ~mw.ok THEN "middleware"
                  ELSE IF handler = "nil" THEN "nohandler" ELSE "handled"]

\* Logger.log: the whole emission.
LogRun(path, lvl, fields, withStack, draw) ==
    LET g == ShouldLog(path, lvl, draw)
    IN IF g.stage # "pass"
       THEN [stage |-> g.stage, cache |-> g.cache, limits |-> g.limits,
             entry |-> NoEntry, mwCalled |-> <<>>, handled |-> 0]
       ELSE LET d == Dispatch(path, lvl, fields, withStack)
            IN [stage |-> d.stage, cache |-> g.cache, limits |-> g.limits,
                entry |-> d.entry, mwCalled |-> d.mwCalled,
                handled |-> d.handled]

\* The record of the logger's rate-limit gate kept for a level: the
\* configuration given to SetRateLimit, the time of that call, and the
\* arrival time and verdict of every emission that reached the gate since.
HistAfter(hist, lvl, stage, t) ==
    IF lvl \in DOMAIN hist /\ stage \notin {"level", "ns", "sampling"}
    THEN [hist EXCEPT ![lvl].arr = Append(@, [t |-> t, ok |-> stage # "rate"])]
    ELSE hist

HistFull(hist, lvl) ==
    lvl \in DOMAIN hist /\ Len(hist[lvl].arr) >= MaxHist

----------------------------------------------------------------------------
(* The state after construction *)

Threads == {1, 2}

\* No Buffered handler has been made.
NoBuffering ==
    [made |-> FALSE, BatchSize |-> 0, FlushInterval |-> 0, MaxBuffer |-> 0,
     OnOverflow |-> "nil"]

\* The worker goroutine: the phases it still has to go through ("select",
\* "flush", "drain", "done"; none before NewBuffered started it), its
\* batch, and its position in the batch while it flushes.
NoWorker == [plan |-> <<>>, batch |-> <<>>, i |-> 0]

\* The goroutines that call Close (1) and Final (2).
Closers == {1, 2}

\* The calls on the Buffered handler so far: the number of records handed
\* to Handle, the records accepted in the order of their acceptance, the
\* records refused, the calls of the overflow callback, the number of Close
\* and Final calls, the number of records accepted when Close was first
\* called, the returns of Close and Final, and the last call's outcome.
NoCalls ==
    [handed |-> 0, accepted |-> <<>>, rejected |-> {}, overflow |-> <<>>,
     closes |-> 0, closeN |-> 0, returns |-> <<>>,
     last |-> [op |-> "none", rec |-> 0, ret |-> "nil"]]

\* A slice: its backing array (0 when it has none), length and capacity.
EmptySlice == [arr |-> 0, len |-> 0, cap |-> 0]

\* The logger New("") returns: it points to the default store (the first
\* of stores) and to its own empty maps and middleware slice. The last
\* five fields are not the logger's: how it was made, from which logger,
\* with which name, the middleware chain it had then, and the middleware
\* installed on it since.
NewLogger ==
    [enabled |-> TRUE, level |-> LevelDebug, namespaces |-> 1,
     currentPath |-> RootPath, context |-> EmptyMap, handler |-> "text",
     middleware |-> EmptySlice,
     via |-> "New", from |-> 0, name |-> RootPath, inherited |-> <<>>,
     own |-> <<>>]

\* A goroutine that is in no call.
IdleGo ==
    [op |-> "none", pc |-> "idle", lock |-> "none", level |-> 0, draw |-> 0,
     arg |-> 0, stale |-> FALSE]

Mutexes == {"Logger.mu", "Sampling.mu"}

\* A sync.RWMutex (or sync.Mutex) nobody holds: no writer, no readers.
Unlocked == [w |-> 0, r |-> {}]

\* Pipe has not been called.
NoPipe == [called |-> FALSE, base |-> <<>>, wraps |-> <<>>, h |-> <<>>]

\* No MultiHandler has been made: no children, nothing handled.
NoMulti ==
    [Handlers |-> <<>>, calls |-> <<>>, out |-> <<>>,
     ret |-> [nil |-> TRUE, errs |-> <<>>]]

IdleFrame ==
    [pc |-> "idle", path |-> RootPath, val |-> FALSE, parts |-> <<>>,
     i |-> 0, enabled |-> TRUE, pending |-> {}, visited |-> {}]

\* New(namespace): disabled, level Debug, a text handler, no context, no
\* middleware, no rate limit, no sampling rate; the shared store is empty.
Init ==
    /\ store = EmptyMap
    /\ cache = EmptyMap
    /\ enabled = FALSE
    /\ level = LevelDebug
    /\ context = EmptyMap
    /\ handler = "text"
    /\ middleware = <<>>
    /\ rateLimits = EmptyMap
    /\ sampleRates = EmptyMap
    /\ now = 0
    /\ obs = NoObs
    /\ rlHist = EmptyMap
    /\ limiter = EmptyMap
    /\ lmHist = EmptyMap
    /\ sampling = [rates |-> EmptyMap, stats |-> EmptyMap]
    /\ fb = FieldsNil
    /\ th = [t \in Threads |-> IdleFrame]
    /\ mh = NoMulti
    /\ config = NoBuffering
    /\ entries = <<>>
    /\ flushSignal = 0
    /\ shutdown = FALSE
    /\ shutdownOnce = "new"
    /\ worker = NoWorker
    /\ tickerC = 0
    /\ down = <<>>
    /\ producer = [pc |-> "idle", rec |-> 0]
    /\ closers = [c \in Closers |-> "idle"]
    /\ bh = NoCalls
    /\ panicked = FALSE
    /\ pipe = NoPipe
    /\ fam = <<NewLogger>>
    /\ arrays = <<>>
    /\ stores = <<[Map |-> EmptyMap, cache |-> EmptyMap]>>
    /\ toggled = EmptyMap
    /\ gor = [t \in Threads |-> IdleGo]
    /\ mu = [m \in Mutexes |-> Unlocked]
    /\ fatal = FALSE

nsVars == <<store, cache>>
cfgVars == <<enabled, level, context, handler, middleware, sampleRates>>
rlVars == <<rateLimits, rlHist>>
lmVars == <<limiter, lmHist, sampling>>
bufVars == <<config, entries, flushSignal, shutdown, shutdownOnce, worker,
            tickerC, down, producer, closers, bh, panicked>>
famVars == <<fam, arrays, stores, toggled>>
raceVars == <<gor, mu, fatal>>
extVars == <<pipe, famVars, raceVars>>
lhVars == <<mh, bufVars, extVars>>

----------------------------------------------------------------------------
(* Configuration of the logger *)

Enable ==
    /\ enabled' = TRUE
    /\ obs' = Op("Enable")
    /\ UNCHANGED <<lhVars, nsVars, level, context, handler, middleware, sampleRates,
                   rlVars, lmVars, now, fb, th>>

Disable ==
    /\ enabled' = FALSE
    /\ obs' = Op("Disable")
    /\ UNCHANGED <<lhVars, nsVars, level, context, handler, middleware, sampleRates,
                   rlVars, lmVars, now, fb, th>>

SetLevel(l) ==
    /\ level' = l
    /\ obs' = Op("SetLevel")
    /\ UNCHANGED <<lhVars, nsVars, enabled, context, handler, middleware, sampleRates,
                   rlVars, lmVars, now, fb, th>>

SetHandler(h) ==
    /\ handler' = h
    /\ obs' = Op("SetHandler")
    /\ UNCHANGED <<lhVars, nsVars, enabled, level, context, middleware, sampleRates,
                   rlVars, lmVars, now, fb, th>>

\* Use appends to the middleware list.
Use(mw) ==
    /\ Len(middleware) < MaxMw
    /\ middleware' = Append(middleware, mw)
    /\ obs' = Op("Use")
    /\ UNCHANGED <<lhVars, nsVars, enabled, level, context, handler, sampleRates,
                   rlVars, lmVars, now, fb, th>>

\* l = l.WithContext(fields): the new logger's context is the old one with
\* the given fields written over it; everything else is copied.
WithContext(fields) ==
    /\ context' = [k \in DOMAIN context \cup DOMAIN fields |->
                      IF k \in DOMAIN fields THEN fields[k] ELSE context[k]]
    /\ obs' = Op("WithContext")
    /\ UNCHANGED <<lhVars, nsVars, enabled, level, handler, middleware, sampleRates,
                   rlVars, lmVars, now, fb, th>>

SetRateLimit(lvl, count, interval) ==
    /\ rateLimits' = Put(rateLimits, lvl,
                         [count |-> 0, maxCount |-> count,
                          interval |-> interval, last |-> now])
    /\ rlHist' = Put(rlHist, lvl,
                     [max |-> count, interval |-> interval, set |-> now,
                      arr |-> <<>>])
    /\ obs' = Op("SetRateLimit")
    /\ UNCHANGED <<lhVars, nsVars, cfgVars, lmVars, now, fb, th>>

SetSampling(lvl, rate) ==
    /\ sampleRates' = Put(sampleRates, lvl, rate)
    /\ obs' = Op("SetSampling")
    /\ UNCHANGED <<lhVars, nsVars, enabled, level, context, handler, middleware,
                   rlVars, lmVars, now, fb, th>>

\* Time passes.
Tick ==
    /\ now < MaxTime
    /\ now' = now + 1
    /\ obs' = Op("Tick")
    /\ UNCHANGED <<lhVars, nsVars, cfgVars, rlVars, lmVars, fb, th>>

----------------------------------------------------------------------------
(* Explicit toggles of the namespace store *)

NamespaceEnable(path) ==
    /\ store' = Put(store, path, TRUE)
    /\ cache' = Invalidate(cache, path)
    /\ obs' = [Op("NamespaceEnable") EXCEPT !.path = path,
                                     !.dropped = DOMAIN cache \ DOMAIN cache']
    /\ UNCHANGED <<lhVars, cfgVars, rlVars, lmVars, now, fb, th>>

NamespaceDisable(path) ==
    /\ store' = Put(store, path, FALSE)
    /\ cache' = Invalidate(cache, path)
    /\ obs' = [Op("NamespaceDisable") EXCEPT !.path = path,
                                     !.dropped = DOMAIN cache \ DOMAIN cache']
    /\ UNCHANGED <<lhVars, cfgVars, rlVars, lmVars, now, fb, th>>

\* lx.Namespace.Set
NamespaceSet(path, value) ==
    /\ store' = Put(store, path, value)
    /\ cache' = Invalidate(cache, path)
    /\ obs' = [Op("Set") EXCEPT !.path = path,
                                     !.dropped = DOMAIN cache \ DOMAIN cache']
    /\ UNCHANGED <<lhVars, cfgVars, rlVars, lmVars, now, fb, th>>

----------------------------------------------------------------------------
(* Emission *)

LogObs(path, lvl, fields, withStack, draw, r) ==
    [op |-> "log", path |-> path, level |-> lvl, fields |-> fields,
     stack |-> withStack,
     draw |-> IF lvl \in DOMAIN sampleRates THEN draw ELSE 0,
     stage |-> r.stage, entry |-> r.entry, mwCalled |-> r.mwCalled,
     handled |-> r.handled, dropped |-> {}, args |-> <<>>, ended |-> "no"]

\* Info, Debug, Warn, Error (withStack false) and Stack (withStack true) of
\* the logger at path: log with nil fields.
Log(path, lvl, withStack, draw) ==
    /\ ~HistFull(rlHist, lvl)
    /\ LET r == LogRun(path, lvl, FieldsNil, withStack, draw)
       IN /\ cache' = r.cache
          /\ rateLimits' = r.limits
          /\ rlHist' = HistAfter(rlHist, lvl, r.stage, now)
          /\ obs' = LogObs(path, lvl, FieldsNil, withStack, draw, r)
    /\ UNCHANGED <<lhVars, store, cfgVars, lmVars, now, fb, th>>

----------------------------------------------------------------------------
(* The namespace store under sequential use *)

NextNs ==
    \/ Enable
    \/ \E p \in Paths : NamespaceEnable(p)
    \/ \E p \in Paths : NamespaceDisable(p)
    \/ \E p \in Paths, v \in BOOLEAN : NamespaceSet(p, v)
    \/ \E p \in Paths \cup {RootPath} : Log(p, LevelInfo, FALSE, 0)

SpecNs == Init /\ [][NextNs]_vars

----------------------------------------------------------------------------
(* The namespace gate: what the claims say of it *)

\* q is P or an ancestor of P: the segments of q are the first segments of P.
IsAncestor(q, P) ==
    LET a == Split(q)
        b == Split(P)
    IN Len(a) <= Len(b) /\ SubSeq(b, 1, Len(a)) = a

ExplicitAncestors(P) == {q \in DOMAIN store : IsAncestor(q, P)}

\* The explicit value of the deepest ancestor of P with an entry; true
\* when there is none.
DeepestExplicit(P) ==
    IF ExplicitAncestors(P) = {} THEN TRUE
    ELSE store[CHOOSE q \in ExplicitAncestors(P) :
                   \A r \in ExplicitAncestors(P) : Len(r) <= Len(q)]

\* What the gate answers a logger at P in this state.
GatePasses(P) == NsGate(store, cache, P).enabled

\* The last operation was an emission at a non-root path that reached the
\* namespace gate.
GateEvaluated == obs.op = "log" /\ obs.path # RootPath /\ obs.stage # "level"

\* C1 (as claimed): after any sequence of explicit toggles, the gate of a
\* logger at P equals the explicit value of the deepest ancestor of P
\* (P included) with an entry, true when there is none; an emission at P is
\* stopped by the namespace gate exactly when that value is false.
C1_DeepestAncestorDecides ==
    /\ \A P \in Paths : GatePasses(P) = DeepestExplicit(P)
    /\ GateEvaluated => ((obs.stage # "ns") = DeepestExplicit(obs.path))

C3_NoStaleCache ==
    /\ \A Q \in DOMAIN cache : cache[Q] = NsWalk(store, Split(Q), 1)
    /\ GateEvaluated =>
          ((obs.stage # "ns") = NsWalk(store, Split(obs.path), 1))

\* C3 witness: an explicit enable of a has just removed the cached values
\* of a and of its descendant a/b/c, and left the cached value of ab.
C3_Witness ==
    /\ obs.op = "NamespaceEnable" /\ obs.path = PathA
    /\ obs.dropped = {PathA, PathABC}
    /\ PathAx \in DOMAIN cache

----------------------------------------------------------------------------
(* The namespace store under concurrent use.  shouldLog and the toggles     *)
(* take no lock around the store: every sync.Map call is one step, and      *)
(* calls of different threads interleave.                                   *)

ConcPaths == {PathA, PathAB}

Frame(t) == th[t]

Quiescent == \A t \in Threads : th[t].pc = "idle"

\* Logger.log from the point where the namespace gate has answered.
FinishRun(path, lvl, nsEnabled, draw) ==
    IF ~nsEnabled
    THEN [stage |-> "ns", limits |-> rateLimits, entry |-> NoEntry,
          mwCalled |-> <<>>, handled |-> 0]
    ELSE LET g == GatesAfterNs(lvl, draw)
             d == Dispatch(path, lvl, FieldsNil, FALSE)
         IN IF g.stage # "pass"
            THEN [stage |-> g.stage, limits |-> g.limits, entry |-> NoEntry,
                  mwCalled |-> <<>>, handled |-> 0]
            ELSE [stage |-> d.stage, limits |-> g.limits, entry |-> d.entry,
                  mwCalled |-> d.mwCalled, handled |-> d.handled]

\* Info on the logger at path p, called by thread t: the enabled/level check.
EvalStart(t, p) ==
    /\ th[t].pc = "idle"
    /\ IF ~enabled \/ LevelInfo < level
       THEN /\ obs' = LogObs(p, LevelInfo, FieldsNil, FALSE, 0,
                             [stage |-> "level", entry |-> NoEntry,
                              mwCalled |-> <<>>, handled |-> 0])
            /\ th' = th
       ELSE /\ th' = [th EXCEPT ![t] = [IdleFrame EXCEPT !.pc = "load",
                                                           !.path = p]]
            /\ obs' = obs
    /\ UNCHANGED <<lhVars, nsVars, cfgVars, rlVars, lmVars, now, fb>>

\* cache.Load(currentPath)
EvalLoad(t) ==
    /\ th[t].pc = "load"
    /\ th' = [th EXCEPT ![t] =
                IF th[t].path \in DOMAIN cache
                THEN [@ EXCEPT !.pc = "gated", !.enabled = cache[th[t].path]]
                ELSE [@ EXCEPT !.pc = "walk", !.parts = Split(th[t].path),
                               !.i = 1, !.enabled = TRUE]]
    /\ UNCHANGED <<lhVars, nsVars, cfgVars, rlVars, lmVars, now, obs, fb>>

\* One turn of the prefix loop: namespaces.Load(parts[:i] joined).
EvalWalk(t) ==
    /\ th[t].pc = "walk"
    /\ LET f == th[t]
           prefix == Join(SubSeq(f.parts, 1, f.i))
       IN th' = [th EXCEPT ![t] =
                   IF prefix \in DOMAIN store /\ ~store[prefix]
                   THEN [@ EXCEPT !.pc = "fill", !.enabled = FALSE]
                   ELSE IF f.i >= Len(f.parts)
                   THEN [@ EXCEPT !.pc = "fill"]
                   ELSE [@ EXCEPT !.i = f.i + 1]]
    /\ UNCHANGED <<lhVars, nsVars, cfgVars, rlVars, lmVars, now, obs, fb>>

\* cache.Store(currentPath, enabled)
EvalFill(t) ==
    /\ th[t].pc = "fill"
    /\ cache' = Put(cache, th[t].path, th[t].enabled)
    /\ th' = [th EXCEPT ![t].pc = "gated"]
    /\ UNCHANGED <<lhVars, store, cfgVars, rlVars, lmVars, now, obs, fb>>

\* The rest of the emission.
EvalFinish(t) ==
    /\ th[t].pc = "gated"
    /\ LET f == th[t]
           r == FinishRun(f.path, LevelInfo, f.enabled, 0)
       IN /\ rateLimits' = r.limits
          /\ rlHist' = HistAfter(rlHist, LevelInfo, r.stage, now)
          /\ obs' = LogObs(f.path, LevelInfo, FieldsNil, FALSE, 0, r)
    /\ th' = [th EXCEPT ![t] = IdleFrame]
    /\ UNCHANGED <<lhVars, nsVars, cfgVars, lmVars, now, fb>>

\* NamespaceEnable(p) (v true) or NamespaceDisable(p) (v false), called by
\* thread t: namespaces.Store(path, v)
ToggleStore(t, p, v) ==
    /\ th[t].pc = "idle"
    /\ store' = Put(store, p, v)
    /\ th' = [th EXCEPT ![t] = [IdleFrame EXCEPT !.pc = "delete",
                                                   !.path = p, !.val = v]]
    /\ UNCHANGED <<lhVars, cache, cfgVars, rlVars, lmVars, now, obs, fb>>

\* cache.Delete(path)
ToggleDelete(t) ==
    /\ th[t].pc = "delete"
    /\ cache' = Del(cache, th[t].path)
    /\ th' = [th EXCEPT ![t].pc = "range"]
    /\ UNCHANGED <<lhVars, store, cfgVars, rlVars, lmVars, now, obs, fb>>

\* cache.Range starts: the keys present now are visited unless deleted.
RangeStart(t) ==
    /\ th[t].pc = "range"
    /\ th' = [th EXCEPT ![t] = [@ EXCEPT !.pc = "visit",
                                        !.pending = DOMAIN cache,
                                        !.visited = {}]]
    /\ UNCHANGED <<lhVars, nsVars, cfgVars, rlVars, lmVars, now, obs, fb>>

\* A key stored while Range runs may be visited or not.
RangeSee(t, k) ==
    /\ th[t].pc = "visit"
    /\ k \in DOMAIN cache
    /\ k \notin th[t].pending \cup th[t].visited
    /\ th' = [th EXCEPT ![t].pending = @ \cup {k}]
    /\ UNCHANGED <<lhVars, nsVars, cfgVars, rlVars, lmVars, now, obs, fb>>

\* The callback of Range on key k.
RangeVisit(t, k) ==
    /\ th[t].pc = "visit"
    /\ k \in th[t].pending
    /\ cache' = IF k \in DOMAIN cache
                   /\ HasPrefix(k, th[t].path \o <<Slash>>)
                THEN Del(cache, k)
                ELSE cache
    /\ th' = [th EXCEPT ![t] = [@ EXCEPT !.pending = @ \ {k},
                                        !.visited = @ \cup {k}]]
    /\ UNCHANGED <<lhVars, store, cfgVars, rlVars, lmVars, now, obs, fb>>

\* Range, and with it the toggle, returns.
RangeDone(t) ==
    /\ th[t].pc = "visit"
    /\ th[t].pending = {}
    /\ obs' = [Op(IF th[t].val THEN "NamespaceEnable" ELSE "NamespaceDisable")
                 EXCEPT !.path = th[t].path]
    /\ th' = [th EXCEPT ![t] = IdleFrame]
    /\ UNCHANGED <<lhVars, nsVars, cfgVars, rlVars, lmVars, now, fb>>

NextConc ==
    \/ Enable
    \/ \E t \in Threads, p \in ConcPaths : EvalStart(t, p)
    \/ \E t \in Threads : EvalLoad(t)
    \/ \E t \in Threads : EvalWalk(t)
    \/ \E t \in Threads : EvalFill(t)
    \/ \E t \in Threads : EvalFinish(t)
    \/ \E t \in Threads, p \in ConcPaths, v \in BOOLEAN : ToggleStore(t, p, v)
    \/ \E t \in Threads : ToggleDelete(t)
    \/ \E t \in Threads : RangeStart(t)
    \/ \E t \in Threads, k \in ConcPaths : RangeSee(t, k)
    \/ \E t \in Threads, k \in ConcPaths : RangeVisit(t, k)
    \/ \E t \in Threads : RangeDone(t)

SpecConc == Init /\ [][NextConc]_vars

\* C4 (as claimed): once every in-flight call has returned, the gate answers
\* every path with the effective state of the explicit store as it stands:
\* no value computed from an earlier store is left in the cache.
C4_NoStaleValueSurvives ==
    Quiescent =>
        \A Q \in ConcPaths : GatePasses(Q) = NsWalk(store, Split(Q), 1)

----------------------------------------------------------------------------
(* The emission pipeline of one logger: configuration and emissions *)

Next ==
    \/ Enable
    \/ Disable
    \/ \E l \in {LevelDebug, LevelWarn} : SetLevel(l)
    \/ \E h \in {"nil", "text"} : SetHandler(h)
    \/ \E mw \in MwKinds : Use(mw)
    \/ SetRateLimit(LevelInfo, 1, 1)
    \/ \E p \in {RootPath, PathA}, lvl \in {LevelInfo, LevelWarn} :
           Log(p, lvl, FALSE, 0)

Spec == Init /\ [][Next]_vars

\* C5: an emission on a disabled logger, or of a severity below the
\* logger's minimum level, constructs no Entry, calls no middleware and no
\* handler, and leaves the namespace cache and the rate-limit state as they
\* were.
C5_ClosedGateDoesNothing ==
    [][(obs'.op = "log" /\ (~enabled \/ obs'.level < level)) =>
           /\ ~obs'.entry.built
           /\ obs'.mwCalled = <<>>
           /\ obs'.handled = 0
           /\ cache' = cache
           /\ rateLimits' = rateLimits]_vars

\* C5 witness: an Info emission below the minimum level on an enabled logger
\* at path a, with middleware and a handler installed and a rate limit on
\* Info, has been stopped; a is not in the cache.
C5_Witness ==
    /\ obs.op = "log" /\ obs.stage = "level" /\ obs.path = PathA
    /\ enabled /\ obs.level < level
    /\ middleware # <<>> /\ handler # "nil"
    /\ obs.level \in DOMAIN rateLimits
    /\ PathA \notin DOMAIN cache

\* The installed middleware that reject the entry.
Rejecting(entry) ==
    {i \in 1..Len(middleware) : ~MwAccepts(middleware[i], entry)}

\* C7: for an emission that passes all gates the middleware are called in
\* installation order up to and including the first that rejects the Entry;
\* nothing after it is called; the handler is called exactly once iff every
\* middleware accepts and a handler is installed, and not at all otherwise.
C7_MiddlewareInOrderUntilReject ==
    (obs.op = "log" /\ obs.entry.built) =>
        LET rej == Rejecting(obs.entry)
            last == IF rej = {} THEN Len(middleware)
                    ELSE CHOOSE i \in rej : \A j \in rej : i <= j
        IN /\ obs.mwCalled = [i \in 1..last |-> i]
           /\ obs.handled = IF rej = {} /\ handler # "nil" THEN 1 ELSE 0

\* C7 witness: of two installed middleware the first has rejected a Warn
\* entry; the second and the installed handler were not called.
C7_Witness ==
    /\ obs.op = "log" /\ obs.entry.built /\ obs.level = LevelWarn
    /\ Len(middleware) = 2 /\ Rejecting(obs.entry) = {1}
    /\ obs.mwCalled = <<1>> /\ obs.handled = 0 /\ handler # "nil"

----------------------------------------------------------------------------
(* Fields and the terminal calls of the FieldBuilder *)

ErrorKey == "error"

\* The pair loop of Fields from argument i (the code's index i - 1): a
\* string key stores the pair, any other key stores an error field.
RECURSIVE FieldsLoop(_, _, _)
FieldsLoop(kv, pairs, i) ==
    IF ~(i < Len(pairs)) THEN kv
    ELSE FieldsLoop(
             IF pairs[i].kind = "string"
             THEN Put(kv, pairs[i].v[1], pairs[i + 1])
             ELSE Put(kv, ErrorKey,
                      ErrVal(<<"non-string key in Fields: ">>
                                 \o Format(pairs[i]))),
             pairs, i + 2)

UnevenError(last) ==
    ErrVal(<<"uneven key-value pairs in Fields: [">> \o Format(last) \o <<"]">>)

\* Logger.Fields(pairs...): the field map of the builder it returns.
Fields_NoUnevenError(pairs) == MkFields(FieldsLoop(EmptyMap, pairs, 1))

Fields(pairs) ==
    LET kv == FieldsLoop(EmptyMap, pairs, 1)
    IN MkFields(IF Len(pairs) % 2 # 0
                THEN Put(kv, ErrorKey, UnevenError(pairs[Len(pairs)]))
                ELSE kv)

\* fb = l.Fields(pairs...)
FieldsCall(pairs) ==
    /\ fb' = Fields(pairs)
    /\ obs' = [Op("Fields") EXCEPT !.args = pairs]
    /\ UNCHANGED <<lhVars, nsVars, cfgVars, rlVars, lmVars, now, th>>

\* fb.Info, fb.Debug, fb.Warn, fb.Error (withStack false) or fb.Stack
\* (withStack true): nothing when the builder's fields are nil, else log
\* with the builder's map; what log writes into that map stays in it.
BuilderLog(path, lvl, withStack, draw) ==
    /\ ~HistFull(rlHist, lvl)
    /\ IF fb.nil
       THEN /\ obs' = [Op("fb.log") EXCEPT !.path = path, !.level = lvl,
                                        !.stack = withStack,
                                        !.stage = "nilfields"]
            /\ UNCHANGED <<cache, rlVars, fb>>
       ELSE LET r == LogRun(path, lvl, fb, withStack, draw)
            IN /\ cache' = r.cache
               /\ rateLimits' = r.limits
               /\ rlHist' = HistAfter(rlHist, lvl, r.stage, now)
               /\ obs' = [LogObs(path, lvl, fb, withStack, draw, r)
                             EXCEPT !.op = "fb.log"]
               /\ fb' = IF r.entry.built THEN r.entry.Fields ELSE fb
    /\ UNCHANGED <<lhVars, store, cfgVars, lmVars, now, th>>

\* The arguments of the model: strings, among them the key "error", and a
\* value that is no string.
ArgVals == {StrVal("k1"), StrVal("k2"), StrVal(ErrorKey), IntVal("42")}

ArgLists == UNION {[1..n -> ArgVals] : n \in 0..MaxArgs}

\* The fields given to WithContext: over keys that Fields and Stack write
\* too, with other values.
CtxInputs ==
    {[k \in {"k1"} |-> StrVal("c1")],
     [k \in {"c", StackKey} |-> StrVal("c2")]}

NextFields ==
    \/ Enable
    \/ \E f \in CtxInputs : WithContext(f)
    \/ \E pairs \in ArgLists : FieldsCall(pairs)
    \/ BuilderLog(PathA, LevelInfo, FALSE, 0)
    \/ BuilderLog(PathA, LevelError, TRUE, 0)

SpecFields == Init /\ [][NextFields]_vars

----------------------------------------------------------------------------
(* Context merge and Fields: what the claims say *)

\* The per-emission field set of the last emission: the fields the caller
\* gave and, for Stack, the captured stack field.
PerEmission ==
    IF obs.stack
    THEN [k \in DOMAIN obs.fields.kv \cup {StackKey} |->
             IF k = StackKey THEN StackTrace ELSE obs.fields.kv[k]]
    ELSE obs.fields.kv

\* C6: the Entry handed to the middleware chain holds every per-emission
\* field with its per-emission value, and exactly those context keys that
\* are absent from the per-emission fields, with the context's value; a
\* context value never replaces a per-emission value.
C6_ContextFillsGaps ==
    (obs.op \in {"log", "fb.log"} /\ obs.entry.built) =>
        LET E == obs.entry.Fields.kv
            F == PerEmission
        IN /\ DOMAIN E = DOMAIN F \cup DOMAIN context
           /\ \A k \in DOMAIN F : E[k] = F[k]
           /\ \A k \in DOMAIN context \ DOMAIN F : E[k] = context[k]

\* C6 witness: an entry was built from per-emission fields and a context
\* that share the key k1 with different values, the context holding a
\* further key the fields lack.
C6_Witness ==
    /\ obs.op = "fb.log" /\ obs.entry.built
    /\ "k1" \in DOMAIN context /\ "k1" \in DOMAIN obs.fields.kv
    /\ context["k1"] # obs.fields.kv["k1"]
    /\ "c" \in DOMAIN context /\ "c" \notin DOMAIN obs.fields.kv

\* The key positions of the last Fields call all hold strings.
FieldsCalled == obs.op = "Fields"

KeyIndexes(args) == {i \in 1..Len(args) : i % 2 = 1 /\ i < Len(args)}

AllKeysStrings(args) == \A i \in KeyIndexes(args) : args[i].kind = "string"

GivenKeys(args) == {args[i].v[1] : i \in KeyIndexes(args)}

\* After Fields() with no argument a terminal call still emits.
EmptyFieldsStillEmit ==
    (obs.op = "fb.log" /\ ~obs.fields.nil /\ enabled) => obs.stage = "handled"

----------------------------------------------------------------------------
(* The lm stages: RateLimiter and Sampling *)

\* RateLimiter.Set(level, count, interval)
RateLimiterSet(lvl, count, interval) ==
    /\ limiter' = Put(limiter, lvl,
                      [count |-> 0, maxCount |-> count,
                       interval |-> interval, last |-> now])
    /\ lmHist' = Put(lmHist, lvl,
                     [max |-> count, interval |-> interval, set |-> now,
                      arr |-> <<>>])
    /\ obs' = Op("RateLimiter.Set")
    /\ UNCHANGED <<lhVars, nsVars, cfgVars, rlVars, sampling, now, fb, th>>

\* RateLimiter.Handle on an entry of level lvl at time t: whether it
\* returns nil, and the limits it leaves.  The counter is incremented
\* before it is compared.
LimiterHandle(limits, lvl, t) ==
    IF lvl \notin DOMAIN limits THEN [ok |-> TRUE, limits |-> limits]
    ELSE LET lim == limits[lvl]
             r == IF t - lim.last >= lim.interval
                  THEN [lim EXCEPT !.last = t, !.count = 0]
                  ELSE lim
             c == r.count + 1
         IN [ok |-> ~(c > r.maxCount),
             limits |-> [limits EXCEPT ![lvl] = [r EXCEPT !.count = c]]]

RateLimiterHandle(lvl) ==
    /\ ~HistFull(lmHist, lvl)
    /\ LET r == LimiterHandle(limiter, lvl, now)
       IN /\ limiter' = r.limits
          /\ lmHist' = HistAfter(lmHist, lvl,
                                 IF r.ok THEN "pass" ELSE "rate", now)
          /\ obs' = [Op("RateLimiter.Handle") EXCEPT
                        !.level = lvl,
                        !.stage = IF r.ok THEN "nil" ELSE "error"]
    /\ UNCHANGED <<lhVars, nsVars, cfgVars, rlVars, sampling, now, fb, th>>

\* Sampling.Set(level, rate)
SamplingSet(lvl, rate) ==
    /\ sampling' = [sampling EXCEPT !.rates = Put(@, lvl, rate)]
    /\ obs' = Op("Sampling.Set")
    /\ UNCHANGED <<lhVars, nsVars, cfgVars, rlVars, limiter, lmHist, now, fb, th>>

\* Sampling.Handle on an entry of level lvl with the draw of rand.Float64:
\* nil without a rate or when the draw is at most the rate, else the
\* level's rejection count grows and an error is returned.
SamplingAllows(rates, lvl, draw) ==
    lvl \notin DOMAIN rates \/ draw <= rates[lvl]

SamplingHandle(lvl, draw) ==
    /\ lvl \in DOMAIN sampling.stats => sampling.stats[lvl] < MaxHist
    /\ LET ok == SamplingAllows(sampling.rates, lvl, draw)
       IN /\ sampling' =
                IF ok THEN sampling
                ELSE [sampling EXCEPT
                        !.stats = Put(@, lvl,
                                      IF lvl \in DOMAIN @ THEN @[lvl] + 1
                                      ELSE 1)]
          /\ obs' = [Op("Sampling.Handle") EXCEPT
                        !.level = lvl,
                        !.draw = IF lvl \in DOMAIN sampling.rates
                                 THEN draw ELSE 0,
                        !.stage = IF ok THEN "nil" ELSE "error"]
    /\ UNCHANGED <<lhVars, nsVars, cfgVars, rlVars, limiter, lmHist, now, fb, th>>

----------------------------------------------------------------------------
(* Rate limiting over time *)

MaxCounts == 0..2
Intervals == {2}

NextRate ==
    \/ Enable
    \/ Tick
    \/ \E c \in MaxCounts, iv \in Intervals : SetRateLimit(LevelInfo, c, iv)
    \/ Log(RootPath, LevelInfo, FALSE, 0)
    \/ \E c \in MaxCounts, iv \in Intervals :
           RateLimiterSet(LevelInfo, c, iv)
    \/ RateLimiterHandle(LevelInfo)

SpecRate == Init /\ [][NextRate]_vars

\* The window in which the i-th emission recorded in h falls: windows are
\* numbered from 0, the first starting when the limit was configured; an
\* emission that arrives once the current window has elapsed starts the
\* next one.
RECURSIVE Window(_, _)
Window(h, i) ==
    IF i = 0 THEN [idx |-> 0, start |-> h.set]
    ELSE LET w == Window(h, i - 1)
         IN IF h.arr[i].t - w.start >= h.interval
            THEN [idx |-> w.idx + 1, start |-> h.arr[i].t]
            ELSE w

\* The emissions before the i-th that fall into the same window.
EarlierInWindow(h, i) ==
    {j \in 1..(i - 1) : Window(h, j).idx = Window(h, i).idx}

\* In each window exactly the first max emissions are forwarded.
FirstMaxForwarded(h) ==
    \A i \in 1..Len(h.arr) :
        h.arr[i].ok <=> Cardinality(EarlierInWindow(h, i)) < h.max

\* C8: for a rate limit (max, window) on a level, in every window exactly
\* the first max emissions of that level that reach the gate are forwarded
\* and the others dropped; the first emission after the window has elapsed
\* starts a new window and is forwarded if max > 0; with max = 0 all are
\* dropped.  This holds of the logger's gate and of lm.RateLimiter.
C8_FirstMaxPerWindow ==
    /\ \A lvl \in DOMAIN rlHist : FirstMaxForwarded(rlHist[lvl])
    /\ \A lvl \in DOMAIN lmHist : FirstMaxForwarded(lmHist[lvl])

\* C8 witness: with max = 2 the logger forwarded two Info emissions and
\* dropped the third in one window, and forwarded the fourth in the next;
\* lm.RateLimiter with max = 1 forwarded, dropped, and forwarded again in
\* the next window.
C8_Witness ==
    /\ LevelInfo \in DOMAIN rlHist
    /\ rlHist[LevelInfo].max = 2
    /\ [i \in 1..Len(rlHist[LevelInfo].arr) |-> rlHist[LevelInfo].arr[i].ok]
          = <<TRUE, TRUE, FALSE, TRUE>>
    /\ LevelInfo \in DOMAIN lmHist
    /\ lmHist[LevelInfo].max = 1
    /\ [i \in 1..Len(lmHist[LevelInfo].arr) |-> lmHist[LevelInfo].arr[i].ok]
          = <<TRUE, FALSE, TRUE>>

----------------------------------------------------------------------------
(* Sampling *)

Rates == 0..Den
Draws == 0..(Den - 1)

NextSample ==
    \/ Enable
    \/ \E p \in Rates : SetSampling(LevelInfo, p)
    \/ \E lvl \in {LevelInfo, LevelWarn}, s \in Draws :
           Log(RootPath, lvl, FALSE, s)
    \/ \E p \in Rates : SamplingSet(LevelInfo, p)
    \/ \E lvl \in {LevelInfo, LevelWarn}, s \in Draws : SamplingHandle(lvl, s)

SpecSample == Init /\ [][NextSample]_vars

\* C9 (as claimed): with a probability p configured on a level and a draw s
\* in [0,1), the sampling gate of shouldLog and Sampling.Handle drop the
\* emission iff s >= p; so p = 0 drops for every draw and p = 1 forwards
\* for every draw.
C9_DropsIffDrawAtLeastP ==
    /\ (obs.op = "log" /\ obs.level \in DOMAIN sampleRates
          /\ obs.stage # "level")
          => ((obs.stage = "sampling") <=> obs.draw >= sampleRates[obs.level])
    /\ (obs.op = "Sampling.Handle" /\ obs.level \in DOMAIN sampling.rates)
          => ((obs.stage = "error") <=> obs.draw >= sampling.rates[obs.level])

----------------------------------------------------------------------------
(* Fields with a key that is no string *)

NonStringKeys(args) == {i \in KeyIndexes(args) : args[i].kind # "string"}

NonStringKeyError(key) == ErrVal(<<"non-string key in Fields: ">> \o Format(key))

\* C11 (as claimed): when some key position of the arguments of Fields holds
\* a value that is no string, the result has a field `error` with the value
\* 'non-string key in Fields: <key>' for that key, and every well-formed
\* pair of the list is present, whatever else the list holds.
C11_NonStringKeyReported ==
    (FieldsCalled /\ NonStringKeys(obs.args) # {}) =>
        LET a == obs.args
        IN /\ ~fb.nil
           /\ ErrorKey \in DOMAIN fb.kv
           /\ \E i \in NonStringKeys(a) :
                  fb.kv[ErrorKey] = NonStringKeyError(a[i])
           /\ \A i \in KeyIndexes(a) \ NonStringKeys(a) :
                  /\ a[i].v[1] \in DOMAIN fb.kv
                  /\ fb.kv[a[i].v[1]] = a[i + 1]

----------------------------------------------------------------------------
(* Conditional, and Fatal and Panic of the FieldBuilder *)

\* l.If(condition).Info, Debug, Warn, Error (withStack false) and Stack
\* (withStack true): nothing when the condition is false, else the call on
\* the logger.
CondLog_Always(condition, path, lvl, withStack, draw) ==
    /\ ~HistFull(rlHist, lvl)
    /\ LET r == LogRun(path, lvl, FieldsNil, withStack, draw)
       IN /\ cache' = r.cache
          /\ rateLimits' = r.limits
          /\ rlHist' = HistAfter(rlHist, lvl, r.stage, now)
          /\ obs' = [LogObs(path, lvl, FieldsNil, withStack, draw, r)
                        EXCEPT !.op = IF condition THEN "If(true).log"
                                      ELSE "If(false).log"]
    /\ UNCHANGED <<lhVars, store, cfgVars, lmVars, now, fb, th>>

CondLog(condition, path, lvl, withStack, draw) ==
    IF ~condition
    THEN /\ obs' = [Op("If(false).log") EXCEPT !.path = path, !.level = lvl,
                                               !.stack = withStack]
         /\ UNCHANGED <<lhVars, nsVars, cfgVars, rlVars, lmVars, now, fb, th>>
    ELSE /\ ~HistFull(rlHist, lvl)
         /\ LET r == LogRun(path, lvl, FieldsNil, withStack, draw)
            IN /\ cache' = r.cache
               /\ rateLimits' = r.limits
               /\ rlHist' = HistAfter(rlHist, lvl, r.stage, now)
               /\ obs' = [LogObs(path, lvl, FieldsNil, withStack, draw, r)
                             EXCEPT !.op = "If(true).log"]
         /\ UNCHANGED <<lhVars, store, cfgVars, lmVars, now, fb, th>>

\* fb = l.If(condition).Fields(pairs...): a builder with nil fields when the
\* condition is false.
CondFields(condition, pairs) ==
    /\ fb' = IF ~condition THEN FieldsNil ELSE Fields(pairs)
    /\ obs' = [Op(IF condition THEN "If(true).Fields" ELSE "If(false).Fields")
                  EXCEPT !.args = pairs]
    /\ UNCHANGED <<lhVars, nsVars, cfgVars, rlVars, lmVars, now, th>>

\* Logger.Field(fields): a builder with a copy of the map.
Field(fields) == MkFields(fields)

\* fb = l.If(condition).Field(fields)
CondField(condition, fields) ==
    /\ fb' = IF ~condition THEN FieldsNil ELSE Field(fields)
    /\ obs' = [Op(IF condition THEN "If(true).Field" ELSE "If(false).Field")
                  EXCEPT !.fields = MkFields(fields)]
    /\ UNCHANGED <<lhVars, nsVars, cfgVars, rlVars, lmVars, now, th>>

\* fb.Fatal (how = "exit") and fb.Panic (how = "panic"): nothing when the
\* builder's fields are nil; else log at Error level with a stack trace,
\* then os.Exit(1) or panic(msg).
BuilderEnd(name, how, path, draw) ==
    /\ ~HistFull(rlHist, LevelError)
    /\ IF fb.nil
       THEN /\ obs' = [Op(name) EXCEPT !.path = path, !.level = LevelError,
                                       !.stack = TRUE, !.stage = "nilfields"]
            /\ UNCHANGED <<cache, rlVars, fb>>
       ELSE LET r == LogRun(path, LevelError, fb, TRUE, draw)
            IN /\ cache' = r.cache
               /\ rateLimits' = r.limits
               /\ rlHist' = HistAfter(rlHist, LevelError, r.stage, now)
               /\ obs' = [LogObs(path, LevelError, fb, TRUE, draw, r)
                             EXCEPT !.op = name, !.ended = how]
               /\ fb' = IF r.entry.built THEN r.entry.Fields ELSE fb
    /\ UNCHANGED <<lhVars, store, cfgVars, lmVars, now, th>>

BuilderFatal(path, draw) == BuilderEnd("Fatal", "exit", path, draw)

BuilderPanic(path, draw) == BuilderEnd("Panic", "panic", path, draw)

\* The process runs until os.Exit or an unrecovered panic.
Running == obs.ended = "no"

CondArgs == {<<>>, <<StrVal("k1"), StrVal("k2")>>, <<StrVal("k1")>>}

NextCond ==
    \/ Running /\ Enable
    \/ \E mw \in {"reject"} : Running /\ Use(mw)
    \/ \E lvl \in {LevelInfo, LevelError}, st \in BOOLEAN :
           Running /\ Log(PathA, lvl, st, 0)
    \/ \E c \in BOOLEAN, lvl \in {LevelInfo, LevelError}, st \in BOOLEAN :
           Running /\ CondLog(c, PathA, lvl, st, 0)
    \/ \E pairs \in CondArgs : Running /\ FieldsCall(pairs)
    \/ \E c \in BOOLEAN, pairs \in CondArgs : Running /\ CondFields(c, pairs)
    \/ \E c \in BOOLEAN, f \in CtxInputs : Running /\ CondField(c, f)
    \/ \E lvl \in {LevelInfo, LevelError}, st \in BOOLEAN :
           Running /\ BuilderLog(PathA, lvl, st, 0)
    \/ Running /\ BuilderFatal(PathA, 0)
    \/ Running /\ BuilderPanic(PathA, 0)

SpecCond == Init /\ [][NextCond]_vars

\* The last call built no Entry, called no middleware and no handler, and
\* neither exited nor panicked.
ProducedNothing(o) ==
    /\ ~o.entry.built
    /\ o.mwCalled = <<>>
    /\ o.handled = 0
    /\ o.ended = "no"

\* C12: a terminal call on If(false), directly or on the builder that
\* If(false).Fields or If(false).Field returned, builds no Entry, calls no
\* middleware and no handler and leaves the logger's state alone, and Fatal
\* and Panic on that builder neither exit nor panic; a call on If(true) has
\* the effects of the same call on the logger.
C12_ConditionalGates ==
    [][/\ obs'.op = "If(false).log" =>
              /\ ProducedNothing(obs')
              /\ UNCHANGED <<cache, rateLimits, fb>>
       /\ (/\ obs.op \in {"If(false).Fields", "If(false).Field"}
           /\ obs'.op \in {"fb.log", "Fatal", "Panic"}) =>
              /\ ProducedNothing(obs')
              /\ UNCHANGED <<cache, rateLimits, fb>>
       /\ obs'.op = "If(true).log" =>
              LET r == LogRun(obs'.path, obs'.level, FieldsNil, obs'.stack,
                              obs'.draw)
              IN /\ cache' = r.cache
                 /\ rateLimits' = r.limits
                 /\ obs'.stage = r.stage
                 /\ obs'.entry = r.entry
                 /\ obs'.mwCalled = r.mwCalled
                 /\ obs'.handled = r.handled
                 /\ fb' = fb
       /\ obs'.op = "If(true).Fields" => fb' = Fields(obs'.args)
       /\ obs'.op = "If(true).Field" => fb' = Field(obs'.fields.kv)
      ]_vars

\* C12 witness: on an enabled logger, Fatal on the builder of If(false)
\* returned without logging and without ending the process.
C12_Witness ==
    /\ enabled
    /\ fb.nil
    /\ obs.op = "Fatal"
    /\ obs.stage = "nilfields"
    /\ obs.ended = "no"

----------------------------------------------------------------------------
(* lh.MultiHandler *)

MaxChildren == 3

ChildNames == {"text", "json"}

\* What a child's Handle returns: nil or an error.
ChildOutcomes == {"nil", "write failed"}

\* NewMultiHandler(h...)
NewMultiHandler(hs) ==
    /\ mh' = [NoMulti EXCEPT !.Handlers = hs]
    /\ obs' = Op("NewMultiHandler")
    /\ UNCHANGED <<nsVars, cfgVars, rlVars, lmVars, bufVars, extVars, now,
                   fb, th>>

\* fmt.Errorf("handler %d: %w", i, err), i counting from 0
ChildError(i, err) == [index |-> i, err |-> err]

\* The loop of MultiHandler.Handle from child i (the code's index i - 1),
\* the children returning out: the children called so far and the errors
\* collected.
RECURSIVE MultiLoop_StopAtError(_, _, _, _, _, _)
MultiLoop_StopAtError(hs, out, e, i, calls, errs) ==
    IF i > Len(hs) \/ errs # <<>> THEN [calls |-> calls, errs |-> errs]
    ELSE MultiLoop_StopAtError(hs, out, e, i + 1,
                   Append(calls, [child |-> i, name |-> hs[i], entry |-> e]),
                   IF out[i] # "nil"
                   THEN Append(errs, ChildError(i - 1, out[i]))
                   ELSE errs)

RECURSIVE MultiLoop(_, _, _, _, _, _)
MultiLoop(hs, out, e, i, calls, errs) ==
    IF i > Len(hs) THEN [calls |-> calls, errs |-> errs]
    ELSE MultiLoop(hs, out, e, i + 1,
                   Append(calls, [child |-> i, name |-> hs[i], entry |-> e]),
                   IF out[i] # "nil"
                   THEN Append(errs, ChildError(i - 1, out[i]))
                   ELSE errs)

\* errors.Join(errs...): nil when no error was collected.
JoinErrors(errs) == [nil |-> errs = <<>>, errs |-> errs]

\* MultiHandler.Handle(e), the children returning out.
MultiHandle(lvl, out) ==
    /\ Len(out) = Len(mh.Handlers)
    /\ LET r == MultiLoop(mh.Handlers, out, lvl, 1, <<>>, <<>>)
       IN mh' = [mh EXCEPT !.calls = r.calls, !.out = out,
                           !.ret = JoinErrors(r.errs)]
    /\ obs' = [Op("MultiHandler.Handle") EXCEPT !.level = lvl]
    /\ UNCHANGED <<nsVars, cfgVars, rlVars, lmVars, bufVars, extVars, now,
                   fb, th>>

ChildLists == UNION {[1..n -> ChildNames] : n \in 0..MaxChildren}

OutcomeLists == UNION {[1..n -> ChildOutcomes] : n \in 0..MaxChildren}

NextMulti ==
    \/ \E hs \in ChildLists : NewMultiHandler(hs)
    \/ \E lvl \in {LevelInfo, LevelError}, out \in OutcomeLists :
           MultiHandle(lvl, out)

SpecMulti == Init /\ [][NextMulti]_vars

\* The children that returned an error in the last Handle.
Failing == {i \in 1..Len(mh.out) : mh.out[i] # "nil"}

----------------------------------------------------------------------------
(* lh.Buffered: NewBuffered and its options *)

\* The width of Go's int in the model; int arithmetic wraps around.
IntBits == 12

MaxInt == 2 ^ (IntBits - 1) - 1
MinInt == 0 - 2 ^ (IntBits - 1)

\* The value of an int expression whose mathematical value is x.
WrapInt(x) == ((x - MinInt) % (2 ^ IntBits)) + MinInt

DefaultBatchSize == 100
DefaultFlushInterval == 10  \* seconds
DefaultMaxBuffer == 1000

DefaultBuffering ==
    [made |-> FALSE, BatchSize |-> DefaultBatchSize,
     FlushInterval |-> DefaultFlushInterval, MaxBuffer |-> DefaultMaxBuffer,
     OnOverflow |-> "default"]

WithBatchSize(size) == [opt |-> "BatchSize", val |-> size]
WithFlushInterval(d) == [opt |-> "FlushInterval", val |-> d]
WithMaxBuffer(size) == [opt |-> "MaxBuffer", val |-> size]
WithOverflowHandler(fn) == [opt |-> "OnOverflow", val |-> fn]

\* opt(config)
ApplyOpt(c, o) ==
    IF o.opt = "BatchSize" THEN [c EXCEPT !.BatchSize = o.val]
    ELSE IF o.opt = "FlushInterval" THEN [c EXCEPT !.FlushInterval = o.val]
    ELSE IF o.opt = "MaxBuffer" THEN [c EXCEPT !.MaxBuffer = o.val]
    ELSE [c EXCEPT !.OnOverflow = o.val]

\* for _, opt := range opts { opt(config) }, from option i
RECURSIVE ApplyOpts(_, _, _)
ApplyOpts(c, opts, i) ==
    IF i > Len(opts) THEN c
    ELSE ApplyOpts(ApplyOpt(c, opts[i]), opts, i + 1)

\* "Ensure sane values"
SaneValues(c) ==
    LET c1 == IF c.BatchSize < 1 THEN [c EXCEPT !.BatchSize = 1] ELSE c
        c2 == IF c1.MaxBuffer < c1.BatchSize
              THEN [c1 EXCEPT !.MaxBuffer = WrapInt(c1.BatchSize * 10)]
              ELSE c1
    IN IF c2.FlushInterval <= 0
       THEN [c2 EXCEPT !.FlushInterval = DefaultFlushInterval]
       ELSE c2

\* NewBuffered(handler, opts...): the configuration, the channels and the
\* worker goroutine; make(chan, n) panics for a negative n.
NewBuffered(opts) ==
    /\ ~config.made
    /\ ~panicked
    /\ LET c == SaneValues(ApplyOpts(DefaultBuffering, opts, 1))
       IN IF c.MaxBuffer < 0
          THEN /\ config' = c
               /\ panicked' = TRUE
               /\ UNCHANGED worker
          ELSE /\ config' = [c EXCEPT !.made = TRUE]
               /\ worker' = [NoWorker EXCEPT !.plan = <<"select">>]
               /\ UNCHANGED panicked
    /\ bh' = [bh EXCEPT !.last = [op |-> "NewBuffered", rec |-> 0,
                                  ret |-> "nil"]]
    /\ obs' = [Op("NewBuffered") EXCEPT !.args = opts]
    /\ UNCHANGED <<nsVars, cfgVars, rlVars, lmVars, mh, extVars, now, fb, th,
                   entries, flushSignal, shutdown, shutdownOnce, tickerC,
                   down, producer, closers>>

\* The values given to the options: below 1, small, around the defaults,
\* and up to the largest int.
SizeInputs == {0 - 1, 0, 1, 2, DefaultBatchSize, DefaultMaxBuffer,
               MaxInt \div 10, MaxInt \div 10 + 1, MaxInt}

IntervalInputs == {0 - 1, 0, 1, DefaultFlushInterval}

\* Option lists: any of the three numeric options, in the order batch
\* size, interval, max buffer, or max buffer first.
OptLists ==
    LET bs == {<<>>} \cup {<<WithBatchSize(n)>> : n \in SizeInputs}
        fi == {<<>>} \cup {<<WithFlushInterval(d)>> : d \in IntervalInputs}
        mb == {<<>>} \cup {<<WithMaxBuffer(n)>> : n \in SizeInputs}
    IN {b \o f \o x : b \in bs, f \in fi, x \in mb}
          \cup {x \o b : b \in bs, x \in mb}

NextBufCfg == \E opts \in OptLists : NewBuffered(opts)

SpecBufCfg == Init /\ [][NextBufCfg]_vars

\* The value the last NewBuffered got for an option, if it was given.
Given(name) == {obs.args[i].val : i \in {j \in 1..Len(obs.args) :
                                            obs.args[j].opt = name}}

\* C19 (as claimed): whatever the options, NewBuffered yields a
\* configuration with MaxBuffer >= BatchSize >= 1 and FlushInterval > 0;
\* the defaults are 100 / 10s / 1000; a batch size below 1 becomes 1, a
\* non-positive interval 10s, a max buffer below the batch size ten times
\* the batch size; valid values are kept.
C19_SaneConfiguration ==
    obs.op = "NewBuffered" =>
        LET b == IF Given("BatchSize") = {} THEN DefaultBatchSize
                 ELSE CHOOSE n \in Given("BatchSize") : TRUE
            f == IF Given("FlushInterval") = {} THEN DefaultFlushInterval
                 ELSE CHOOSE n \in Given("FlushInterval") : TRUE
            x == IF Given("MaxBuffer") = {} THEN DefaultMaxBuffer
                 ELSE CHOOSE n \in Given("MaxBuffer") : TRUE
            batch == IF b < 1 THEN 1 ELSE b
        IN /\ ~panicked
           /\ config.made
           /\ config.MaxBuffer >= config.BatchSize
           /\ config.BatchSize >= 1
           /\ config.FlushInterval > 0
           /\ config.BatchSize = batch
           /\ config.FlushInterval = (IF f <= 0 THEN DefaultFlushInterval
                                      ELSE f)
           /\ x >= batch => config.MaxBuffer = x
           /\ x < batch => config.MaxBuffer >= 10 * batch

----------------------------------------------------------------------------
(* lh.Buffered: Handle, Flush, the worker, Close and Final *)

MaxRecords == 3    \* records handed to Handle
MaxCloses == 2     \* calls of Close and Final

\* Everything but the Buffered handler and obs.
logVars == <<nsVars, cfgVars, rlVars, lmVars, mh, extVars, now, fb, th>>

Called(op, rec, ret) == [op |-> op, rec |-> rec, ret |-> ret]

\* Handle(e), the select on b.entries: the record is sent when the channel
\* has room, else the default case is taken.
HandleSend_NoLimit ==
    /\ config.made /\ ~panicked
    /\ producer.pc = "idle"
    /\ bh.handed < MaxRecords
    /\ LET id == bh.handed + 1
       IN /\ entries' = Append(entries, id)
          /\ bh' = [bh EXCEPT !.handed = id,
                              !.accepted = Append(@, id),
                              !.last = Called("Handle", id, "nil")]
          /\ UNCHANGED producer
    /\ UNCHANGED <<logVars, obs, config, flushSignal, shutdown, shutdownOnce,
                   worker, tickerC, down, closers, panicked>>

HandleSend ==
    /\ config.made /\ ~panicked
    /\ producer.pc = "idle"
    /\ bh.handed < MaxRecords
    /\ LET id == bh.handed + 1
       IN IF Len(entries) < config.MaxBuffer
          THEN /\ entries' = Append(entries, id)
               /\ bh' = [bh EXCEPT !.handed = id,
                                   !.accepted = Append(@, id),
                                   !.last = Called("Handle", id, "nil")]
               /\ UNCHANGED producer
          ELSE /\ producer' = [pc |-> "overflow", rec |-> id]
               /\ bh' = [bh EXCEPT !.handed = id]
               /\ UNCHANGED entries
    /\ UNCHANGED <<logVars, obs, config, flushSignal, shutdown, shutdownOnce,
                   worker, tickerC, down, closers, panicked>>

\* Handle(e), default case: b.config.OnOverflow(len(b.entries)) when a
\* callback is installed.
HandleOverflow ==
    /\ ~panicked
    /\ producer.pc = "overflow"
    /\ bh' = IF config.OnOverflow # "nil"
             THEN [bh EXCEPT !.overflow =
                      Append(@, [rec |-> producer.rec,
                                 count |-> Len(entries)])]
             ELSE bh
    /\ producer' = [producer EXCEPT !.pc = "signal"]
    /\ UNCHANGED <<logVars, obs, config, entries, flushSignal, shutdown,
                   shutdownOnce, worker, tickerC, down, closers, panicked>>

\* Handle(e), the select on b.flushSignal, and the return of the error.
HandleSignal ==
    /\ ~panicked
    /\ producer.pc = "signal"
    /\ flushSignal' = 1
    /\ bh' = [bh EXCEPT
                !.rejected = @ \cup {producer.rec},
                !.last = Called("Handle", producer.rec,
                                IF flushSignal = 0
                                THEN "log buffer overflow, triggering flush"
                                ELSE "log buffer overflow and flush already in progress")]
    /\ producer' = [pc |-> "idle", rec |-> 0]
    /\ UNCHANGED <<logVars, obs, config, entries, shutdown, shutdownOnce,
                   worker, tickerC, down, closers, panicked>>

\* Flush(): the signal is sent, or the call gives up after 100ms while a
\* signal is pending.
Flush_NoSignal ==
    /\ config.made /\ ~panicked
    /\ producer.pc = "idle"
    /\ bh' = [bh EXCEPT !.last = Called("Flush", 0, "timeout")]
    /\ UNCHANGED <<logVars, obs, config, entries, flushSignal, shutdown,
                   shutdownOnce, worker, tickerC, down, producer, closers,
                   panicked>>

Flush ==
    /\ config.made /\ ~panicked
    /\ producer.pc = "idle"
    /\ flushSignal' = 1
    /\ bh' = [bh EXCEPT !.last = Called("Flush", 0,
                                        IF flushSignal = 0 THEN "sent"
                                        ELSE "timeout")]
    /\ UNCHANGED <<logVars, obs, config, entries, shutdown, shutdownOnce,
                   worker, tickerC, down, producer, closers, panicked>>

\* The ticker of the worker fires; a tick is dropped while one is waiting.
TickFire ==
    /\ config.made /\ ~panicked
    /\ worker.plan # <<"done">>
    /\ tickerC = 0
    /\ tickerC' = 1
    /\ UNCHANGED <<logVars, obs, config, entries, flushSignal, shutdown,
                   shutdownOnce, worker, down, producer, closers, bh,
                   panicked>>

AtSelect == ~panicked /\ worker.plan = <<"select">>

\* The phases after a case of the select: flushBatch if the batch is not
\* empty, then the rest.
FlushThen(rest) ==
    [worker EXCEPT !.plan = IF worker.batch # <<>> THEN <<"flush">> \o rest
                            ELSE rest,
                   !.i = 1]

\* worker, case entry := <-b.entries
WorkerRecv ==
    /\ AtSelect
    /\ entries # <<>>
    /\ entries' = Tail(entries)
    /\ LET b == Append(worker.batch, Head(entries))
       IN worker' = IF Len(b) >= config.BatchSize
                    THEN [plan |-> <<"flush", "select">>, batch |-> b,
                          i |-> 1]
                    ELSE [worker EXCEPT !.batch = b]
    /\ UNCHANGED <<logVars, obs, config, flushSignal, shutdown, shutdownOnce,
                   tickerC, down, producer, closers, bh, panicked>>

\* worker, case <-ticker.C
WorkerTick_NoFlush ==
    /\ AtSelect
    /\ tickerC = 1
    /\ tickerC' = 0
    /\ UNCHANGED <<logVars, obs, config, entries, flushSignal, shutdown,
                   shutdownOnce, worker, down, producer, closers, bh,
                   panicked>>

WorkerTick ==
    /\ AtSelect
    /\ tickerC = 1
    /\ tickerC' = 0
    /\ worker' = FlushThen(<<"select">>)
    /\ UNCHANGED <<logVars, obs, config, entries, flushSignal, shutdown,
                   shutdownOnce, down, producer, closers, bh, panicked>>

\* worker, case <-b.flushSignal
WorkerFlushSignal_DrainFirst ==
    /\ AtSelect
    /\ flushSignal = 1
    /\ flushSignal' = 0
    /\ worker' = [worker EXCEPT
                     !.plan = IF worker.batch # <<>>
                              THEN <<"drain", "flush", "select">>
                              ELSE <<"drain", "select">>,
                     !.i = 1]
    /\ UNCHANGED <<logVars, obs, config, entries, shutdown, shutdownOnce,
                   tickerC, down, producer, closers, bh, panicked>>

WorkerFlushSignal ==
    /\ AtSelect
    /\ flushSignal = 1
    /\ flushSignal' = 0
    /\ worker' = FlushThen(<<"drain", "select">>)
    /\ UNCHANGED <<logVars, obs, config, entries, shutdown, shutdownOnce,
                   tickerC, down, producer, closers, bh, panicked>>

\* worker, case <-b.shutdown
WorkerShutdown_NoDrain ==
    /\ AtSelect
    /\ shutdown
    /\ worker' = FlushThen(<<"done">>)
    /\ UNCHANGED <<logVars, obs, config, entries, flushSignal, shutdown,
                   shutdownOnce, tickerC, down, producer, closers, bh,
                   panicked>>

WorkerShutdown ==
    /\ AtSelect
    /\ shutdown
    /\ worker' = FlushThen(<<"drain", "done">>)
    /\ UNCHANGED <<logVars, obs, config, entries, flushSignal, shutdown,
                   shutdownOnce, tickerC, down, producer, closers, bh,
                   panicked>>

\* flushBatch: b.handler.Handle on the next entry of the batch; after the
\* last one the batch is emptied (batch[:0]) unless the worker returns.
FlushBatch ==
    /\ ~panicked
    /\ worker.plan # <<>> /\ Head(worker.plan) = "flush"
    /\ down' = Append(down, worker.batch[worker.i])
    /\ worker' = IF worker.i < Len(worker.batch)
                 THEN [worker EXCEPT !.i = @ + 1]
                 ELSE [plan |-> Tail(worker.plan),
                       batch |-> IF worker.plan[Len(worker.plan)] = "done"
                                 THEN worker.batch ELSE <<>>,
                       i |-> 0]
    /\ UNCHANGED <<logVars, obs, config, entries, flushSignal, shutdown,
                   shutdownOnce, tickerC, producer, closers, bh, panicked>>

\* drainRemaining: receive an entry and hand it to b.handler.Handle, or
\* return when the channel is empty.
DrainRemaining ==
    /\ ~panicked
    /\ worker.plan # <<>> /\ Head(worker.plan) = "drain"
    /\ IF entries # <<>>
       THEN /\ down' = Append(down, Head(entries))
            /\ entries' = Tail(entries)
            /\ UNCHANGED worker
       ELSE /\ worker' = [worker EXCEPT !.plan = Tail(@)]
            /\ UNCHANGED <<down, entries>>
    /\ UNCHANGED <<logVars, obs, config, flushSignal, shutdown, shutdownOnce,
                   tickerC, producer, closers, bh, panicked>>

WorkerDone == worker.plan = <<"done">>

\* What a return of Close or Final is remembered by.
Returned(c) ==
    [c |-> c, ret |-> "nil", drained |-> WorkerDone, down |-> Len(down)]

\* Close() or Final() by c, entering shutdownOnce.Do: the first caller runs
\* the function, a caller that comes while it runs waits for it, a caller
\* that comes after it returns at once.
CloseStart_NoOnce(c) ==
    /\ config.made /\ ~panicked
    /\ closers[c] = "idle"
    /\ bh.closes < MaxCloses
    /\ closers' = [closers EXCEPT ![c] = "run"]
    /\ bh' = [bh EXCEPT !.closes = @ + 1,
                        !.closeN = IF bh.closes = 0 THEN Len(bh.accepted)
                                   ELSE @]
    /\ UNCHANGED <<logVars, obs, config, entries, flushSignal, shutdown,
                   shutdownOnce, worker, tickerC, down, producer, panicked>>

CloseStart(c) ==
    /\ config.made /\ ~panicked
    /\ closers[c] = "idle"
    /\ bh.closes < MaxCloses
    /\ shutdownOnce' = IF shutdownOnce = "new" THEN "running"
                       ELSE shutdownOnce
    /\ closers' = [closers EXCEPT ![c] =
                      IF shutdownOnce = "new" THEN "run"
                      ELSE IF shutdownOnce = "running" THEN "blocked"
                      ELSE "idle"]
    /\ bh' = [bh EXCEPT !.closes = @ + 1,
                        !.closeN = IF bh.closes = 0 THEN Len(bh.accepted)
                                   ELSE @,
                        !.returns = IF shutdownOnce = "done"
                                    THEN Append(@, Returned(c)) ELSE @]
    /\ UNCHANGED <<logVars, obs, config, entries, flushSignal, shutdown,
                   worker, tickerC, down, producer, panicked>>

\* close(b.shutdown); closing a closed channel panics.
CloseShutdown(c) ==
    /\ ~panicked
    /\ closers[c] = "run"
    /\ IF shutdown
       THEN /\ panicked' = TRUE
            /\ UNCHANGED <<shutdown, closers>>
       ELSE /\ shutdown' = TRUE
            /\ closers' = [closers EXCEPT ![c] = "wait"]
            /\ UNCHANGED panicked
    /\ UNCHANGED <<logVars, obs, config, entries, flushSignal, shutdownOnce,
                   worker, tickerC, down, producer, bh>>

\* b.wg.Wait() returns once the worker has returned; the function given to
\* Do returns, and Close returns nil.
CloseWait(c) ==
    /\ ~panicked
    /\ closers[c] = "wait"
    /\ WorkerDone
    /\ shutdownOnce' = "done"
    /\ closers' = [closers EXCEPT ![c] = "idle"]
    /\ bh' = [bh EXCEPT !.returns = Append(@, Returned(c))]
    /\ UNCHANGED <<logVars, obs, config, entries, flushSignal, shutdown,
                   worker, tickerC, down, producer, panicked>>

\* A caller that waited in Do returns once the first call's function has
\* returned.
CloseJoin(c) ==
    /\ ~panicked
    /\ closers[c] = "blocked"
    /\ shutdownOnce = "done"
    /\ closers' = [closers EXCEPT ![c] = "idle"]
    /\ bh' = [bh EXCEPT !.returns = Append(@, Returned(c))]
    /\ UNCHANGED <<logVars, obs, config, entries, flushSignal, shutdown,
                   shutdownOnce, worker, tickerC, down, producer, panicked>>

\* The handlers made in the model: batch size and max buffer 2 with an
\* overflow callback, batch size 1, and no overflow callback.
BufOpts ==
    {<<WithBatchSize(2), WithMaxBuffer(2), WithOverflowHandler("custom")>>,
     <<WithBatchSize(1), WithMaxBuffer(1)>>,
     <<WithBatchSize(2), WithMaxBuffer(3), WithOverflowHandler("nil")>>}

NextBuf ==
    \/ \E opts \in BufOpts : NewBuffered(opts)
    \/ HandleSend
    \/ HandleOverflow
    \/ HandleSignal
    \/ Flush
    \/ TickFire
    \/ WorkerRecv
    \/ WorkerTick
    \/ WorkerFlushSignal
    \/ WorkerShutdown
    \/ FlushBatch
    \/ DrainRemaining
    \/ \E c \in Closers : CloseStart(c)
    \/ \E c \in Closers : CloseShutdown(c)
    \/ \E c \in Closers : CloseWait(c)
    \/ \E c \in Closers : CloseJoin(c)

SpecBuf == Init /\ [][NextBuf]_vars

----------------------------------------------------------------------------
(* lh.Buffered: what the claims say *)

Range(seq) == {seq[i] : i \in 1..Len(seq)}

\* The places of a record in a sequence.
Places(seq, r) == {i \in 1..Len(seq) : seq[i] = r}

\* C14: if N records were accepted by Handle before Close was called, then
\* once Close has returned each of them has been handed to the downstream
\* handler exactly once, nothing was handed to it that was not accepted or
\* more than once, and it was called exactly N times when no record was
\* accepted after the call of Close.
C14_CloseDeliversAllAccepted ==
    bh.returns # <<>> =>
        /\ \A k \in 1..bh.closeN :
               Cardinality(Places(down, bh.accepted[k])) = 1
        /\ \A r \in Range(down) :
               /\ r \in Range(bh.accepted)
               /\ Cardinality(Places(down, r)) = 1
        /\ Len(bh.accepted) = bh.closeN => Len(down) = bh.closeN

\* C14 witness: with batch size 2, three records were accepted, then
\* Close was called and has returned after the three were delivered.
C14_Witness ==
    /\ config.BatchSize = 2
    /\ bh.closeN = 3
    /\ bh.returns # <<>>
    /\ Len(down) = 3

\* C15: in every reachable state the records handed to the downstream
\* handler are a prefix of the records in the order they were enqueued.
C15_DeliveredPrefixOfEnqueued ==
    /\ Len(down) <= Len(bh.accepted)
    /\ \A j \in 1..Len(down) : down[j] = bh.accepted[j]

\* C15 witness: a flush signal found one record in the worker's batch and
\* another in the channel, and both were delivered in their order.
C15_Witness ==
    /\ config.BatchSize = 2
    /\ bh.last.op = "Flush"
    /\ bh.handed = 2
    /\ ~shutdown
    /\ tickerC = 0
    /\ down = <<1, 2>>
    /\ worker.plan = <<"drain", "select">>

\* No caller of Close waits for something that cannot happen: the one that
\* waits for the worker, after the shutdown channel was closed, finds the
\* worker able to go on or done; one that waits in Do finds the function
\* running or done.
NoCloseDeadlock ==
    \A c \in Closers :
        /\ closers[c] = "wait" =>
               /\ shutdown
               /\ \/ WorkerDone
                  \/ worker.plan # <<>>
                       /\ Head(worker.plan) \in {"select", "flush", "drain"}
        /\ closers[c] = "blocked" =>
               \/ shutdownOnce = "done"
               \/ \E d \in Closers : closers[d] \in {"run", "wait"}

\* C16: every Close or Final returns nil, none panics or deadlocks, none
\* returns before the worker has drained and returned, and after the first
\* return the downstream handler is not called again.
C16_CloseIdempotent ==
    /\ ~panicked
    /\ NoCloseDeadlock
    /\ \A j \in 1..Len(bh.returns) :
           /\ bh.returns[j].ret = "nil"
           /\ bh.returns[j].drained
           /\ bh.returns[j].down = bh.returns[1].down
    /\ bh.returns # <<>> => Len(down) = bh.returns[1].down

\* C16 witness: Close and Final have both returned, after a delivery.
C16_Witness ==
    /\ Len(bh.returns) = 2
    /\ bh.returns[1].c # bh.returns[2].c
    /\ bh.returns[1].down > 0

\* The records held anywhere on the way downstream.
Held == Range(entries) \cup Range(worker.batch) \cup Range(down)

\* C17: a Handle call goes on without waiting; it returns nil exactly when
\* the queue held fewer than MaxBuffer records and the record was put into
\* it; else it calls the overflow callback once with the number of queued
\* records, leaves a flush signal pending, returns an error, and the
\* record is not enqueued and never delivered.
C17_HandleNeverBlocks ==
    [][/\ bh'.handed # bh.handed =>
              LET id == bh'.handed
              IN IF Len(entries) < config.MaxBuffer
                 THEN /\ entries' = Append(entries, id)
                      /\ bh'.last = Called("Handle", id, "nil")
                      /\ producer'.pc = "idle"
                 ELSE /\ entries' = entries
                      /\ producer' = [pc |-> "overflow", rec |-> id]
       /\ (producer.pc = "overflow" /\ producer' # producer) =>
              /\ producer' = [producer EXCEPT !.pc = "signal"]
              /\ config.OnOverflow # "nil" =>
                     bh'.overflow =
                         Append(bh.overflow, [rec |-> producer.rec,
                                              count |-> Len(entries)])
              /\ config.OnOverflow = "nil" => bh'.overflow = bh.overflow
       /\ (producer.pc = "signal" /\ producer' # producer) =>
              /\ flushSignal' = 1
              /\ bh'.last.op = "Handle"
              /\ bh'.last.rec = producer.rec
              /\ bh'.last.ret # "nil"
              /\ producer.rec \in bh'.rejected
              /\ producer'.pc = "idle"
       /\ producer'.pc \in {"overflow", "signal"} =>
              (ENABLED (HandleOverflow \/ HandleSignal))'
       /\ bh'.rejected \cap (Held' \cup Range(bh'.accepted)) = {}
       /\ \A r \in bh'.rejected :
              Cardinality(Places([i \in 1..Len(bh'.overflow) |->
                                     bh'.overflow[i].rec], r))
                  = IF config'.OnOverflow # "nil" THEN 1 ELSE 0
      ]_vars

\* C17 witness: the second record handed to a handler with max buffer 1
\* was refused after the callback was called with 1, and is held nowhere.
C17_Witness ==
    /\ config.MaxBuffer = 1
    /\ bh.last.op = "Handle" /\ bh.last.rec = 2 /\ bh.last.ret # "nil"
    /\ bh.overflow = <<[rec |-> 2, count |-> 1]>>
    /\ 2 \notin Held

\* C18 (as claimed): once MaxBuffer records were accepted and none of them
\* was delivered downstream, the next Handle takes the overflow path.
C18_OverflowOnceMaxAccepted ==
    [][(/\ bh'.handed # bh.handed
        /\ Len(bh.accepted) = config.MaxBuffer
        /\ down = <<>>)
          => producer'.pc = "overflow"]_vars

----------------------------------------------------------------------------
(* lh.Buffered left running: neither Flush nor Close is called *)

NextBufLive ==
    \/ \E opts \in BufOpts : NewBuffered(opts)
    \/ HandleSend
    \/ HandleOverflow
    \/ HandleSignal
    \/ TickFire
    \/ WorkerRecv
    \/ WorkerTick
    \/ WorkerFlushSignal
    \/ FlushBatch
    \/ DrainRemaining

\* The worker goroutine is scheduled whenever one of the cases of its
\* select is ready or it is in the middle of a flush, and the ticker of
\* time.NewTicker keeps firing.
SpecBufLive ==
    /\ Init
    /\ [][NextBufLive]_vars
    /\ WF_vars(TickFire)
    /\ WF_vars(WorkerRecv)
    /\ WF_vars(WorkerTick)
    /\ WF_vars(WorkerFlushSignal)
    /\ WF_vars(FlushBatch)
    /\ WF_vars(DrainRemaining)

\* C20: while the handler is not closed and the ticker keeps firing, every
\* record that Handle accepted is eventually handed to the downstream
\* handler, even when fewer than BatchSize records are pending.
C20_AcceptedEventuallyDelivered ==
    \A id \in 1..MaxRecords :
        (id \in Range(bh.accepted)) ~> (id \in Range(down))

\* C20 witness: with batch size 2 a single record was handed in, and a
\* tick made the worker deliver it.
C20_Witness ==
    /\ config.BatchSize = 2
    /\ bh.handed = 1
    /\ bh.rejected = {}
    /\ down = <<1>>

----------------------------------------------------------------------------
(* lh.Buffered with Flush: no tick, no Close *)

NextBufFlush ==
    \/ \E opts \in BufOpts : NewBuffered(opts)
    \/ HandleSend
    \/ HandleOverflow
    \/ HandleSignal
    \/ Flush
    \/ WorkerRecv
    \/ WorkerFlushSignal
    \/ FlushBatch
    \/ DrainRemaining

\* The worker goroutine is scheduled whenever a case of its select is ready
\* or it is in the middle of a flush; the ticker never fires.
SpecBufFlush ==
    /\ Init
    /\ [][NextBufFlush]_vars
    /\ WF_vars(WorkerRecv)
    /\ WF_vars(WorkerFlushSignal)
    /\ WF_vars(FlushBatch)
    /\ WF_vars(DrainRemaining)

\* C21: on a handler that is not closed, every record accepted before a
\* call of Flush is delivered downstream after it, with no tick and no
\* full batch; and Flush can always be called and returns, also while a
\* flush signal is pending.
C21_FlushDeliversAccepted ==
    /\ \A id \in 1..MaxRecords :
           (bh.last.op = "Flush" /\ id \in Range(bh.accepted))
               ~> (id \in Range(down))
    /\ []((config.made /\ ~panicked /\ producer.pc = "idle")
              => ENABLED Flush)

\* C21 witness: with batch size 2 a single record was accepted, Flush was
\* called while a signal was pending, and the record has been delivered.
C21_Witness ==
    /\ config.BatchSize = 2
    /\ bh.handed = 1
    /\ bh.last = Called("Flush", 0, "timeout")
    /\ down = <<1>>

----------------------------------------------------------------------------
(* lh.Pipe *)

MaxWraps == 3      \* wrappers given to one call of Pipe

\* A handler is the sequence of its layers, outermost first; the base
\* handler is its last element.
BaseHandlers == {<<"text">>, <<"json">>}

\* The wrappers of a call: factories of a layer, or nil.
WrapNames == {"nil", "dedup", "buffer", "stamp"}

\* w(h): the handler w returns holds h as its next handler.
Wrap(w, h) == <<w>> \o h

\* The loop of Pipe from wrapper i.
RECURSIVE PipeLoop_WrapNil(_, _, _)
PipeLoop_WrapNil(h, wraps, i) ==
    IF i > Len(wraps) THEN h
    ELSE PipeLoop_WrapNil(Wrap(wraps[i], h), wraps, i + 1)

RECURSIVE PipeLoop(_, _, _)
PipeLoop(h, wraps, i) ==
    IF i > Len(wraps) THEN h
    ELSE PipeLoop(IF wraps[i] # "nil" THEN Wrap(wraps[i], h) ELSE h,
                  wraps, i + 1)

Pipe(h, wraps) ==
    /\ pipe' = [called |-> TRUE, base |-> h, wraps |-> wraps,
                h |-> PipeLoop(h, wraps, 1)]
    /\ obs' = Op("Pipe")
    /\ UNCHANGED <<nsVars, cfgVars, rlVars, lmVars, mh, bufVars, famVars,
                   raceVars, now, fb, th>>

WrapLists == UNION {[1..n -> WrapNames] : n \in 0..MaxWraps}

NextPipe ==
    \E h \in BaseHandlers, wraps \in WrapLists : Pipe(h, wraps)

SpecPipe == Init /\ [][NextPipe]_vars

\* The wrappers of a list that are not nil, in their order.
NonNil(wraps) == SelectSeq(wraps, LAMBDA w : w # "nil")

\* wn(...(w2(w1(base)))) for the list w1 .. wn.
RECURSIVE Nested(_, _)
Nested(ws, base) ==
    IF ws = <<>> THEN base
    ELSE Wrap(ws[Len(ws)], Nested(SubSeq(ws, 1, Len(ws) - 1), base))

----------------------------------------------------------------------------
(* Loggers derived from one another: Namespace, WithContext, Use *)

MaxLoggers == 3    \* loggers made by New, Namespace and WithContext
MaxUses == 5       \* calls of Use on all loggers together

notFam == <<nsVars, cfgVars, lmVars, mh, bufVars, pipe, raceVars, now, fb,
           th>>

\* The elements a slice shows: the first len slots of its backing array.
Elems(sl) == IF sl.len = 0 THEN <<>> ELSE SubSeq(arrays[sl.arr], 1, sl.len)

\* The capacity append gives a slice that has to grow by one element.
GrowCap(cap) == IF cap = 0 THEN 1 ELSE 2 * cap

\* append(sl, x): with room left, x is written into the backing array the
\* slice shares with every slice made from it; else the elements are
\* copied into a new array. The slice returned and the arrays afterwards.
GoAppend(sl, x) ==
    IF sl.len < sl.cap
    THEN [slice |-> [sl EXCEPT !.len = sl.len + 1],
          arrays |-> [arrays EXCEPT ![sl.arr][sl.len + 1] = x]]
    ELSE LET c == GrowCap(sl.cap)
             new == [i \in 1..c |->
                        IF i <= sl.len THEN arrays[sl.arr][i]
                        ELSE IF i = sl.len + 1 THEN x ELSE "nil"]
         IN [slice |-> [arr |-> Len(arrays) + 1, len |-> sl.len + 1,
                        cap |-> c],
             arrays |-> Append(arrays, new)]

\* The calls of Use made so far on the first n loggers.
RECURSIVE UseCount(_)
UseCount(n) == IF n = 0 THEN 0 ELSE Len(fam[n].own) + UseCount(n - 1)

\* l.Use(mw) on logger k
LoggerUse(k, mw) ==
    /\ k \in 1..Len(fam)
    /\ UseCount(Len(fam)) < MaxUses
    /\ LET r == GoAppend(fam[k].middleware, mw)
       IN /\ arrays' = r.arrays
          /\ fam' = [fam EXCEPT ![k].middleware = r.slice,
                                ![k].own = Append(@, mw)]
    /\ obs' = [Op("Use") EXCEPT !.args = <<k>>]
    /\ UNCHANGED <<notFam, rlVars, stores, toggled>>

\* currentPath + "/" + name, or name for a logger without a path
FullPath_NoSeparator(currentPath, name) == currentPath \o name

FullPath(currentPath, name) ==
    IF currentPath # RootPath THEN currentPath \o <<Slash>> \o name
    ELSE name

\* l.Namespace(name) on logger k: the new logger is the last of fam.
LoggerNamespace(k, name) ==
    /\ k \in 1..Len(fam)
    /\ Len(fam) < MaxLoggers
    /\ fam' = Append(fam,
                     [fam[k] EXCEPT
                         !.currentPath = FullPath(fam[k].currentPath, name),
                         !.context = EmptyMap,
                         !.via = "Namespace", !.from = k, !.name = name,
                         !.inherited = Elems(fam[k].middleware),
                         !.own = <<>>])
    /\ obs' = [Op("Namespace") EXCEPT !.args = <<k>>]
    /\ UNCHANGED <<notFam, rlVars, arrays, stores, toggled>>

\* l.WithContext(fields) on logger k: the new logger is the last of fam.
LoggerWithContext(k, fields) ==
    /\ k \in 1..Len(fam)
    /\ Len(fam) < MaxLoggers
    /\ fam' = Append(fam,
                     [fam[k] EXCEPT
                         !.context =
                             [x \in DOMAIN fam[k].context \cup DOMAIN fields |->
                                 IF x \in DOMAIN fields THEN fields[x]
                                 ELSE fam[k].context[x]],
                         !.via = "WithContext", !.from = k,
                         !.name = RootPath,
                         !.inherited = Elems(fam[k].middleware),
                         !.own = <<>>])
    /\ obs' = [Op("WithContext") EXCEPT !.args = <<k>>]
    /\ UNCHANGED <<notFam, rlVars, arrays, stores, toggled>>

\* l.NamespaceEnable(path) (v true) and l.NamespaceDisable(path) (v false)
\* on logger k: the store the logger points to is written.
LoggerNamespaceToggle(k, path, v) ==
    /\ k \in 1..Len(fam)
    /\ LET n == fam[k].namespaces
       IN stores' = [stores EXCEPT
                        ![n].Map = Put(@, path, v),
                        ![n].cache = Invalidate(@, path)]
    /\ toggled' = Put(toggled, path, [v |-> v, by |-> k])
    /\ obs' = [Op(IF v THEN "NamespaceEnable" ELSE "NamespaceDisable")
                 EXCEPT !.path = path, !.args = <<k>>]
    /\ UNCHANGED <<notFam, rlVars, fam, arrays>>

\* shouldLog and log of logger k with nil fields: the gates read the
\* logger's own flag and level, the store it points to and the maps it
\* shares with the logger it was made from; the middleware is what its
\* slice shows.
LoggerLogRun(k, lvl, draw) ==
    LET l == fam[k]
        st == stores[l.namespaces]
    IN IF ~l.enabled \/ lvl < l.level
       THEN [stage |-> "level", cache |-> st.cache, limits |-> rateLimits,
             entry |-> NoEntry, mwCalled |-> <<>>, handled |-> 0]
       ELSE LET ns == NsGate(st.Map, st.cache, l.currentPath)
                g == GatesAfterNs(lvl, draw)
            IN IF ~ns.enabled
               THEN [stage |-> "ns", cache |-> ns.cache,
                     limits |-> rateLimits,
                     entry |-> NoEntry, mwCalled |-> <<>>, handled |-> 0]
               ELSE IF g.stage # "pass"
               THEN [stage |-> g.stage, cache |-> ns.cache,
                     limits |-> g.limits,
                     entry |-> NoEntry, mwCalled |-> <<>>, handled |-> 0]
               ELSE LET entry == [built |-> TRUE, Level |-> lvl,
                                  Namespace |-> l.currentPath,
                                  Fields |-> MergeContext(FieldsNil, l.context),
                                  Timestamp |-> now]
                        mw == RunMiddleware(Elems(l.middleware), 1, entry)
                    IN [stage |-> IF ~mw.ok THEN "middleware"
                                  ELSE IF l.handler = "nil" THEN "nohandler"
                                  ELSE "handled",
                        cache |-> ns.cache, limits |-> g.limits,
                        entry |-> entry, mwCalled |-> mw.called,
                        handled |-> IF mw.ok /\ l.handler # "nil" THEN 1
                                    ELSE 0]

LoggerLog(k, lvl, draw) ==
    /\ k \in 1..Len(fam)
    /\ ~HistFull(rlHist, lvl)
    /\ LET r == LoggerLogRun(k, lvl, draw)
       IN /\ stores' = [stores EXCEPT ![fam[k].namespaces].cache = r.cache]
          /\ rateLimits' = r.limits
          /\ rlHist' = HistAfter(rlHist, lvl, r.stage, now)
          /\ obs' = [LogObs(fam[k].currentPath, lvl, FieldsNil, FALSE, draw, r)
                       EXCEPT !.op = "Logger.log", !.args = <<k>>]
    /\ UNCHANGED <<notFam, fam, arrays, toggled>>

Segments == {<<"a">>, <<"b">>}

FamCtx == {[x \in {"c"} |-> StrVal("c1")]}

\* The paths of the loggers made so far.
FamPaths == {fam[k].currentPath : k \in 1..Len(fam)} \ {RootPath}

NextFam ==
    \/ \E k \in 1..MaxLoggers, name \in Segments : LoggerNamespace(k, name)
    \/ \E k \in 1..MaxLoggers, f \in FamCtx : LoggerWithContext(k, f)
    \/ \E k \in 1..MaxLoggers, p \in FamPaths, v \in BOOLEAN :
           LoggerNamespaceToggle(k, p, v)
    \/ \E k \in 1..MaxLoggers : LoggerLog(k, LevelInfo, 0)

SpecFam == Init /\ [][NextFam]_vars

\* The explicit states as the calls of all loggers together left them.
Toggles == [p \in DOMAIN toggled |-> toggled[p].v]

\* C23: Namespace(child) on a logger with path p makes a logger with path
\* p + "/" + child (child when p is empty) and an empty context, which
\* points to the store of the logger it was made from; the path and the
\* context of that logger stay as they were; and an emission of any logger
\* passes the namespace gate according to the toggles made through all of
\* the loggers.
C23_NamespaceDerivesChild ==
    [][/\ Len(fam') > Len(fam) =>
           /\ Len(fam') = Len(fam) + 1
           /\ \A k \in 1..Len(fam) :
                  /\ fam'[k].currentPath = fam[k].currentPath
                  /\ fam'[k].context = fam[k].context
           /\ LET c == fam'[Len(fam')]
                  p == fam[c.from]
              IN c.via = "Namespace" =>
                     /\ c.currentPath =
                            IF p.currentPath = <<>> THEN c.name
                            ELSE p.currentPath \o <<"/">> \o c.name
                     /\ c.context = EmptyMap
                     /\ c.namespaces = p.namespaces
       /\ obs'.op = "Logger.log" =>
              (obs'.stage = "ns") = ~NsWalk(Toggles, Split(obs'.path), 1)
      ]_vars

\* C23 witness: the logger at a/b was made by Namespace from the logger at
\* a, which was made from the one without a path; a was disabled through
\* the child, and the next emission of the logger at a was stopped by the
\* namespace gate.
C23_Witness ==
    /\ Len(fam) = 3
    /\ fam[2].via = "Namespace" /\ fam[2].from = 1
    /\ fam[2].currentPath = PathA
    /\ fam[3].via = "Namespace" /\ fam[3].from = 2
    /\ fam[3].currentPath = PathAB
    /\ PathA \in DOMAIN toggled /\ toggled[PathA] = [v |-> FALSE, by |-> 3]
    /\ obs.op = "Logger.log" /\ obs.args = <<2>> /\ obs.stage = "ns"

----------------------------------------------------------------------------
(* Use on loggers that share a middleware slice *)

\* The middleware function installed on logger k: one kind on the first
\* logger, another on the loggers derived from it.
OwnMw(k) == IF k = 1 THEN "accept" ELSE "warnUp"

NextUse ==
    \/ \E k \in 1..MaxLoggers : LoggerUse(k, OwnMw(k))
    \/ \E k \in 1..MaxLoggers : LoggerNamespace(k, <<"a">>)
    \/ \E k \in 1..MaxLoggers, f \in FamCtx : LoggerWithContext(k, f)
    \/ \E k \in 1..MaxLoggers : LoggerLog(k, LevelInfo, 0)

SpecUse == Init /\ [][NextUse]_vars

\* C29 (as claimed): the middleware chain of every logger is the chain it
\* had when it was made followed by the middleware installed on it, in
\* order, whatever Use did on other loggers.
C29_UseIsolated ==
    \A k \in 1..Len(fam) :
        Elems(fam[k].middleware) = fam[k].inherited \o fam[k].own

----------------------------------------------------------------------------
(* The builder after a terminal call *)

\* C30 (as claimed): a terminal call on a FieldBuilder leaves the fields
\* of the builder as they were: neither the context merged during the
\* emission nor the captured stack is written into them.
C30_TerminalLeavesBuilder ==
    [][obs'.op = "fb.log" => fb' = fb]_vars

----------------------------------------------------------------------------
(* Rate limiting over any period *)

\* The emissions recorded in h that were forwarded in the period of length
\* h.interval that starts with the i-th.
ForwardedInPeriod(h, i) ==
    {j \in 1..Len(h.arr) :
        /\ h.arr[j].ok
        /\ h.arr[j].t >= h.arr[i].t
        /\ h.arr[j].t < h.arr[i].t + h.interval}

\* C25 (as claimed): with a rate limit (count, interval) on a level, at
\* most count emissions of the level are forwarded within any period of
\* length interval, by the logger's gate and by lm.RateLimiter.
C25_AtMostCountInAnyPeriod ==
    /\ \A lvl \in DOMAIN rlHist :
           \A i \in 1..Len(rlHist[lvl].arr) :
               Cardinality(ForwardedInPeriod(rlHist[lvl], i))
                   <= rlHist[lvl].max
    /\ \A lvl \in DOMAIN lmHist :
           \A i \in 1..Len(lmHist[lvl].arr) :
               Cardinality(ForwardedInPeriod(lmHist[lvl], i))
                   <= lmHist[lvl].max

----------------------------------------------------------------------------
(* The gates of one logger together *)

NextGates ==
    \/ Enable
    \/ Disable
    \/ \E l \in {LevelDebug, LevelWarn} : SetLevel(l)
    \/ NamespaceEnable(PathA)
    \/ NamespaceDisable(PathA)
    \/ \E p \in Rates : SetSampling(LevelInfo, p)
    \/ \E iv \in Intervals : SetRateLimit(LevelInfo, 1, iv)
    \/ Tick
    \/ \E p \in {RootPath, PathA}, s \in Draws : Log(p, LevelInfo, FALSE, s)

SpecGates == Init /\ [][NextGates]_vars

\* C26: the gates run in the order enabled/level, namespace, sampling,
\* rate limit: an emission is stopped by the first of them that rejects
\* it, and one stopped by the enabled/level, namespace or sampling gate
\* leaves the counter and the window start of its level as they were.
C26_GateOrder ==
    [][obs'.op = "log" =>
           LET lvl == obs'.level
               p == obs'.path
               closed == ~enabled \/ lvl < level
               nsOff == p # RootPath /\ ~NsWalk(store, Split(p), 1)
               sampled == /\ lvl \in DOMAIN sampleRates
                          /\ obs'.draw > sampleRates[lvl]
           IN /\ (obs'.stage = "level") = closed
              /\ (obs'.stage = "ns") = (~closed /\ nsOff)
              /\ (obs'.stage = "sampling") = (~closed /\ ~nsOff /\ sampled)
              /\ (closed \/ nsOff \/ sampled) => rateLimits' = rateLimits
      ]_vars

\* C26 witness: an Info emission was stopped by the sampling gate after
\* the window of its rate limit had elapsed; the window was not restarted.
C26_Witness ==
    /\ obs.op = "log" /\ obs.stage = "sampling" /\ obs.level = LevelInfo
    /\ LevelInfo \in DOMAIN rateLimits
    /\ rateLimits[LevelInfo].count = 1
    /\ rateLimits[LevelInfo].last = 0
    /\ now = 2

----------------------------------------------------------------------------
(* Handle on a closed Buffered handler *)

\* C28 (as claimed): Handle returns nil only for a record that a worker
\* will deliver: once the worker has returned, every record that was
\* accepted has been delivered downstream.
C28_AcceptedIsDelivered ==
    WorkerDone => Range(bh.accepted) \subseteq Range(down)

----------------------------------------------------------------------------
(* Goroutines on one logger: the mutators and the emission path, step by
   step *)

notRace == <<nsVars, lmHist, limiter, mh, bufVars, pipe, famVars, fb, th>>

\* The calls that write a field of the logger under l.mu.Lock().
Mutators ==
    {"Enable", "Disable", "SetLevel", "SetSampling", "SetRateLimit", "Use",
     "SetHandler"}

\* The fields a goroutine reads and writes with its next step: none when
\* the step is the acquisition or release of a mutex, or a step on a
\* value that has its own synchronization.
Accesses(t) ==
    LET f == gor[t]
        none == [r |-> {}, w |-> {}]
    IN CASE f.op = "log" /\ f.pc = "enabled" -> [r |-> {"enabled"}, w |-> {}]
         [] f.op = "log" /\ f.pc = "level" -> [r |-> {"level"}, w |-> {}]
         [] f.op = "log" /\ f.pc = "sampleRates" ->
                [r |-> {"sampleRates"}, w |-> {}]
         [] f.op = "log" /\ f.pc = "rateLimits" ->
                [r |-> {"rateLimits"}, w |-> {}]
         [] f.op = "log" /\ f.pc = "locked" ->
                [r |-> {"context", "middleware", "handler"}, w |-> {}]
         [] f.op \in {"Enable", "Disable"} /\ f.pc = "locked" ->
                [r |-> {}, w |-> {"enabled"}]
         [] f.op = "SetLevel" /\ f.pc = "locked" ->
                [r |-> {}, w |-> {"level"}]
         [] f.op = "SetSampling" /\ f.pc = "locked" ->
                [r |-> {}, w |-> {"sampleRates"}]
         [] f.op = "SetRateLimit" /\ f.pc = "locked" ->
                [r |-> {}, w |-> {"rateLimits"}]
         [] f.op = "Use" /\ f.pc = "locked" ->
                [r |-> {"middleware"}, w |-> {"middleware"}]
         [] f.op = "SetHandler" /\ f.pc = "locked" ->
                [r |-> {}, w |-> {"handler"}]
         [] f.op = "Sampling.Set" /\ f.pc = "locked" ->
                [r |-> {}, w |-> {"Sampling.rates"}]
         [] f.op = "Sampling.Handle" /\ f.pc = "rates" ->
                [r |-> {"Sampling.rates"}, w |-> {}]
         [] f.op = "Sampling.Handle" /\ f.pc = "locked" ->
                [r |-> {"Sampling.stats"}, w |-> {"Sampling.stats"}]
         [] f.op = "Sampling.GetStats" /\ f.pc = "locked" ->
                [r |-> {"Sampling.stats"}, w |-> {}]
         [] OTHER -> none

\* The fields that are Go maps.
MapFields == {"sampleRates", "rateLimits", "Sampling.rates", "Sampling.stats"}

\* The fields on which the next steps of t and u conflict: both can be
\* taken now, they touch the same field, and one of them writes it.
Conflicts(t, u) ==
    (Accesses(t).w \cap (Accesses(u).r \cup Accesses(u).w))
        \cup (Accesses(u).w \cap Accesses(t).r)

\* mu.Lock() of the mutex the call uses
MuLock(t) ==
    /\ ~fatal
    /\ gor[t].pc = "lock"
    /\ mu[gor[t].lock] = Unlocked
    /\ mu' = [mu EXCEPT ![gor[t].lock].w = t]
    /\ gor' = [gor EXCEPT ![t].pc = "locked"]
    /\ UNCHANGED <<notRace, cfgVars, rlVars, sampling, now, obs, fatal>>

\* mu.RLock() of l.mu in log
MuRLock(t) ==
    /\ ~fatal
    /\ gor[t].pc = "rlock"
    /\ mu[gor[t].lock].w = 0
    /\ mu' = [mu EXCEPT ![gor[t].lock].r = @ \cup {t}]
    /\ gor' = [gor EXCEPT ![t].pc = "locked"]
    /\ UNCHANGED <<notRace, cfgVars, rlVars, sampling, now, obs, fatal>>

\* The deferred Unlock or RUnlock, and the return of the call.
MuUnlock(t) ==
    /\ ~fatal
    /\ gor[t].pc = "unlock"
    /\ mu' = [mu EXCEPT ![gor[t].lock] =
                 [w |-> IF @.w = t THEN 0 ELSE @.w, r |-> @.r \ {t}]]
    /\ gor' = [gor EXCEPT ![t] = IdleGo]
    /\ UNCHANGED <<notRace, cfgVars, rlVars, sampling, now, obs, fatal>>

\* A goroutine calls a mutator of the logger.
CallMutator(t, op, arg) ==
    /\ ~fatal
    /\ gor[t].pc = "idle"
    /\ op = "Use" => Len(middleware) < MaxMw
    /\ gor' = [gor EXCEPT ![t] = [IdleGo EXCEPT !.op = op, !.pc = "lock",
                                               !.lock = "Logger.mu",
                                               !.arg = arg]]
    /\ UNCHANGED <<notRace, cfgVars, rlVars, sampling, now, obs, mu, fatal>>

\* The assignment of the mutator, under l.mu. SetRateLimit puts a new
\* rateLimit into the map: a goroutine that holds the old one keeps it.
MutatorWrite(t) ==
    /\ ~fatal
    /\ gor[t].op \in Mutators
    /\ gor[t].pc = "locked"
    /\ LET f == gor[t]
       IN /\ enabled' = CASE f.op = "Enable" -> TRUE
                          [] f.op = "Disable" -> FALSE
                          [] OTHER -> enabled
          /\ level' = IF f.op = "SetLevel" THEN f.arg ELSE level
          /\ sampleRates' = IF f.op = "SetSampling"
                            THEN Put(sampleRates, LevelInfo, f.arg)
                            ELSE sampleRates
          /\ rateLimits' = IF f.op = "SetRateLimit"
                           THEN Put(rateLimits, LevelInfo,
                                    [count |-> 0, maxCount |-> f.arg,
                                     interval |-> 2, last |-> now])
                           ELSE rateLimits
          /\ rlHist' = IF f.op = "SetRateLimit"
                       THEN Put(rlHist, LevelInfo,
                                [max |-> f.arg, interval |-> 2, set |-> now,
                                 arr |-> <<>>])
                       ELSE rlHist
          /\ middleware' = IF f.op = "Use" /\ Len(middleware) < MaxMw
                           THEN Append(middleware, "accept")
                           ELSE middleware
          /\ handler' = IF f.op = "SetHandler"
                        THEN (IF f.arg = 0 THEN "nil" ELSE "text")
                        ELSE handler
          /\ gor' = [u \in Threads |->
                        IF u = t THEN [f EXCEPT !.pc = "unlock"]
                        ELSE IF f.op = "SetRateLimit" /\ gor[u].pc = "limit"
                        THEN [gor[u] EXCEPT !.stale = TRUE]
                        ELSE gor[u]]
          /\ obs' = Op(f.op)
    /\ UNCHANGED <<notRace, context, sampling, now, mu, fatal>>

\* A goroutine calls Info on the logger made by New(""): log, shouldLog.
CallLog(t, draw) ==
    /\ ~fatal
    /\ gor[t].pc = "idle"
    /\ ~HistFull(rlHist, LevelInfo)
    /\ gor' = [gor EXCEPT ![t] = [IdleGo EXCEPT !.op = "log",
                                               !.pc = "enabled",
                                               !.lock = "Logger.mu",
                                               !.level = LevelInfo,
                                               !.draw = draw]]
    /\ UNCHANGED <<notRace, cfgVars, rlVars, sampling, now, obs, mu, fatal>>

\* The emission ends before an entry is built.
Stopped(t, stage) ==
    /\ gor' = [gor EXCEPT ![t] = IdleGo]
    /\ obs' = [Op("log") EXCEPT !.level = gor[t].level, !.stage = stage,
                                !.draw = gor[t].draw]

\* shouldLog: !l.enabled, read without l.mu
ReadEnabled(t) ==
    /\ ~fatal
    /\ gor[t].op = "log" /\ gor[t].pc = "enabled"
    /\ IF ~enabled THEN Stopped(t, "level")
       ELSE gor' = [gor EXCEPT ![t].pc = "level"] /\ UNCHANGED obs
    /\ UNCHANGED <<notRace, cfgVars, rlVars, sampling, now, mu, fatal>>

\* shouldLog: level < l.level, read without l.mu; the logger has no path,
\* so the namespace check is skipped.
ReadLevel(t) ==
    /\ ~fatal
    /\ gor[t].op = "log" /\ gor[t].pc = "level"
    /\ IF gor[t].level < level THEN Stopped(t, "level")
       ELSE gor' = [gor EXCEPT ![t].pc = "sampleRates"] /\ UNCHANGED obs
    /\ UNCHANGED <<notRace, cfgVars, rlVars, sampling, now, mu, fatal>>

\* shouldLog: l.sampleRates[level], read without l.mu
ReadSampleRates(t) ==
    /\ ~fatal
    /\ gor[t].op = "log" /\ gor[t].pc = "sampleRates"
    /\ IF ~SamplePasses(sampleRates, gor[t].level, gor[t].draw)
       THEN Stopped(t, "sampling")
       ELSE gor' = [gor EXCEPT ![t].pc = "rateLimits"] /\ UNCHANGED obs
    /\ UNCHANGED <<notRace, cfgVars, rlVars, sampling, now, mu, fatal>>

\* shouldLog: l.rateLimits[level], read without l.mu
ReadRateLimits(t) ==
    /\ ~fatal
    /\ gor[t].op = "log" /\ gor[t].pc = "rateLimits"
    /\ gor' = [gor EXCEPT ![t].pc = IF gor[t].level \in DOMAIN rateLimits
                                    THEN "limit" ELSE "rlock"]
    /\ UNCHANGED <<notRace, cfgVars, rlVars, sampling, now, obs, mu, fatal>>

\* shouldLog: the window and the counter of the rateLimit read from the
\* map, under limit.mu.
LimitGate(t) ==
    /\ ~fatal
    /\ gor[t].op = "log" /\ gor[t].pc = "limit"
    /\ LET rl == RateGate(rateLimits, gor[t].level, now)
       IN /\ rateLimits' = IF gor[t].stale THEN rateLimits ELSE rl.limits
          /\ rlHist' = IF gor[t].stale THEN rlHist
                       ELSE HistAfter(rlHist, gor[t].level,
                                      IF rl.ok THEN "pass" ELSE "rate", now)
          /\ IF rl.ok \/ gor[t].stale
             THEN gor' = [gor EXCEPT ![t].pc = "rlock"] /\ UNCHANGED obs
             ELSE Stopped(t, "rate")
    /\ UNCHANGED <<notRace, cfgVars, sampling, now, mu, fatal>>

\* log under l.mu.RLock(): the entry, the context merge, the middleware
\* and the handler.
LogLocked(t) ==
    /\ ~fatal
    /\ gor[t].op = "log" /\ gor[t].pc = "locked"
    /\ LET d == Dispatch(RootPath, gor[t].level, FieldsNil, FALSE)
       IN obs' = [LogObs(RootPath, gor[t].level, FieldsNil, FALSE,
                         gor[t].draw,
                         [stage |-> d.stage, entry |-> d.entry,
                          mwCalled |-> d.mwCalled, handled |-> d.handled])
                    EXCEPT !.draw = gor[t].draw]
    /\ gor' = [gor EXCEPT ![t].pc = "unlock"]
    /\ UNCHANGED <<notRace, cfgVars, rlVars, sampling, now, mu, fatal>>

\* The runtime finds a map read or written while another goroutine writes
\* it, and stops the process ("concurrent map read and map write").
MapFault(t, u) ==
    /\ ~fatal
    /\ t # u
    /\ Conflicts(t, u) \cap MapFields # {}
    /\ fatal' = TRUE
    /\ obs' = Op("fatal error")
    /\ UNCHANGED <<notRace, cfgVars, rlVars, sampling, now, gor, mu>>

\* The argument a mutator is called with: the level of SetLevel, the rate
\* of SetSampling, the count of SetRateLimit, no handler for SetHandler.
MutatorArg(op) ==
    CASE op = "SetLevel" -> LevelWarn
      [] op = "SetSampling" -> Den
      [] op = "SetRateLimit" -> 1
      [] OTHER -> 0

NextLoggerRace ==
    \/ \E t \in Threads, op \in Mutators : CallMutator(t, op, MutatorArg(op))
    \/ \E t \in Threads : MuLock(t)
    \/ \E t \in Threads : MutatorWrite(t)
    \/ \E t \in Threads : MuUnlock(t)
    \/ \E t \in Threads : CallLog(t, 0)
    \/ \E t \in Threads : ReadEnabled(t)
    \/ \E t \in Threads : ReadLevel(t)
    \/ \E t \in Threads : ReadSampleRates(t)
    \/ \E t \in Threads : ReadRateLimits(t)
    \/ \E t \in Threads : LimitGate(t)
    \/ \E t \in Threads : MuRLock(t)
    \/ \E t \in Threads : LogLocked(t)
    \/ \E t, u \in Threads : MapFault(t, u)

SpecLoggerRace == Init /\ [][NextLoggerRace]_vars

\* C24 (as claimed): with mutators and emissions running concurrently on
\* one logger, no two goroutines are ever about to touch the same field
\* or map of the logger, one of them writing it, and the runtime never
\* stops the process for a concurrent map access.
C24_NoUnsynchronizedAccess ==
    /\ ~fatal
    /\ \A t, u \in Threads : t # u => Conflicts(t, u) = {}

----------------------------------------------------------------------------
(* Goroutines on one lm.Sampling, step by step *)

\* A goroutine calls s.Set(LevelInfo, rate).
CallSamplingSet(t, rate) ==
    /\ ~fatal
    /\ gor[t].pc = "idle"
    /\ gor' = [gor EXCEPT ![t] = [IdleGo EXCEPT !.op = "Sampling.Set",
                                               !.pc = "lock",
                                               !.lock = "Sampling.mu",
                                               !.level = LevelInfo,
                                               !.arg = rate]]
    /\ UNCHANGED <<notRace, cfgVars, rlVars, sampling, now, obs, mu, fatal>>

\* Set: s.rates[level] = rate, under s.mu
SamplingSetLocked(t) ==
    /\ ~fatal
    /\ gor[t].op = "Sampling.Set" /\ gor[t].pc = "locked"
    /\ sampling' = [sampling EXCEPT !.rates = Put(@, gor[t].level, gor[t].arg)]
    /\ gor' = [gor EXCEPT ![t].pc = "unlock"]
    /\ obs' = Op("Sampling.Set")
    /\ UNCHANGED <<notRace, cfgVars, rlVars, now, mu, fatal>>

\* A goroutine calls s.Handle(e) with an entry of level Info.
CallSamplingHandle(t, draw) ==
    /\ ~fatal
    /\ gor[t].pc = "idle"
    /\ LevelInfo \in DOMAIN sampling.stats => sampling.stats[LevelInfo] < MaxHist
    /\ gor' = [gor EXCEPT ![t] = [IdleGo EXCEPT !.op = "Sampling.Handle",
                                               !.pc = "rates",
                                               !.lock = "Sampling.mu",
                                               !.level = LevelInfo,
                                               !.draw = draw]]
    /\ UNCHANGED <<notRace, cfgVars, rlVars, sampling, now, obs, mu, fatal>>

\* Handle: rate, exists := s.rates[e.Level], read before s.mu is taken;
\* nil is returned when the level has no rate.
SamplingReadRates(t) ==
    /\ ~fatal
    /\ gor[t].op = "Sampling.Handle" /\ gor[t].pc = "rates"
    /\ IF gor[t].level \notin DOMAIN sampling.rates
       THEN /\ gor' = [gor EXCEPT ![t] = IdleGo]
            /\ obs' = [Op("Sampling.Handle") EXCEPT !.level = gor[t].level,
                                                    !.stage = "nil"]
       ELSE /\ gor' = [gor EXCEPT ![t].pc = "lock",
                                  ![t].arg = sampling.rates[gor[t].level]]
            /\ UNCHANGED obs
    /\ UNCHANGED <<notRace, cfgVars, rlVars, sampling, now, mu, fatal>>

\* Handle under s.mu: the draw against the rate read before; a rejection
\* is counted in s.stats.
SamplingHandleLocked(t) ==
    /\ ~fatal
    /\ gor[t].op = "Sampling.Handle" /\ gor[t].pc = "locked"
    /\ LET ok == gor[t].draw <= gor[t].arg
       IN /\ sampling' =
                IF ok THEN sampling
                ELSE [sampling EXCEPT
                        !.stats = Put(@, gor[t].level,
                                      IF gor[t].level \in DOMAIN @
                                      THEN @[gor[t].level] + 1 ELSE 1)]
          /\ obs' = [Op("Sampling.Handle") EXCEPT
                        !.level = gor[t].level, !.draw = gor[t].draw,
                        !.stage = IF ok THEN "nil" ELSE "error"]
    /\ gor' = [gor EXCEPT ![t].pc = "unlock"]
    /\ UNCHANGED <<notRace, cfgVars, rlVars, now, mu, fatal>>

\* A goroutine calls s.GetStats().
CallGetStats(t) ==
    /\ ~fatal
    /\ gor[t].pc = "idle"
    /\ gor' = [gor EXCEPT ![t] = [IdleGo EXCEPT !.op = "Sampling.GetStats",
                                               !.pc = "lock",
                                               !.lock = "Sampling.mu"]]
    /\ UNCHANGED <<notRace, cfgVars, rlVars, sampling, now, obs, mu, fatal>>

\* GetStats: the copy of s.stats, under s.mu
GetStatsLocked(t) ==
    /\ ~fatal
    /\ gor[t].op = "Sampling.GetStats" /\ gor[t].pc = "locked"
    /\ gor' = [gor EXCEPT ![t].pc = "unlock"]
    /\ obs' = Op("Sampling.GetStats")
    /\ UNCHANGED <<notRace, cfgVars, rlVars, sampling, now, mu, fatal>>

NextSamplingRace ==
    \/ \E t \in Threads, p \in Rates : CallSamplingSet(t, p)
    \/ \E t \in Threads : SamplingSetLocked(t)
    \/ \E t \in Threads, s \in Draws : CallSamplingHandle(t, s)
    \/ \E t \in Threads : SamplingReadRates(t)
    \/ \E t \in Threads : SamplingHandleLocked(t)
    \/ \E t \in Threads : CallGetStats(t)
    \/ \E t \in Threads : GetStatsLocked(t)
    \/ \E t \in Threads : MuLock(t)
    \/ \E t \in Threads : MuUnlock(t)
    \/ \E t, u \in Threads : MapFault(t, u)

SpecSamplingRace == Init /\ [][NextSamplingRace]_vars

\* C27 (as claimed): with Set, Handle and GetStats running concurrently
\* on one Sampling, no two goroutines are ever about to touch the rates or
\* the stats map, one of them writing it, and the runtime never stops the
\* process for a concurrent map access.
C27_SamplingSynchronized ==
    /\ ~fatal
    /\ \A t, u \in Threads :
           t # u =>
               Conflicts(t, u) \cap {"Sampling.rates", "Sampling.stats"} = {}

====
